---------------------------- MODULE Spec2Model ----------------------------
(***************************************************************************)
(* Model of the emergency-profile pipeline of                              *)
(* src/frontend/components/emergency_profile_system.py:                    *)
(*   - the record store (sqlite tables written by the mutation methods),   *)
(*   - generate_emergency_profile / EmergencyProfile.to_emergency_dict,    *)
(*   - generate_emergency_qr with its file cache and _invalidate_qr_cache. *)
(*                                                                         *)
(* Conventions                                                             *)
(*   - The clock `now` counts ticks of 30 minutes since 2024-06-10 00:00.  *)
(*     datetime.now() reads `now`.  isoformat()/fromisoformat() of a       *)
(*     datetime is a lossless, order-preserving text encoding; a stored    *)
(*     timestamp is kept as its tick count and compared as the text is.    *)
(*   - Python's None / SQL NULL is the empty sequence <<>>, a present      *)
(*     optional value v is <<v>>.                                          *)
(*   - A table is the sequence of its rows in rowid order, the order a     *)
(*     full scan (SELECT * FROM t) returns them in.                        *)
(***************************************************************************)
EXTENDS Integers, Sequences, FiniteSets, TLC

VARIABLES
    now,                \* the wall clock, in ticks
    patient_info,       \* table patient_info
    allergies,          \* table allergies
    medications,        \* table medications
    emergency_contact,  \* table emergency_contact
    vitals,             \* table vitals
    qr_file,            \* the file at qr_cache_path: <<>> or <<[mtime, content]>>
    since_render,       \* history: "never" rendered, "clean" (no mutation has returned
                        \* since the last render) or "mutated"
    profile,            \* the caller's EmergencyProfile object: <<>> or <<p>>
    last,               \* the last call made on the manager and how it ended
    text_log,           \* history: <<>>, or <<[at, text, repeated]>> for the latest
                        \* text export that SpecText has logged since the last
                        \* mutation
    db_locked,          \* a connection that was never closed holds the write lock
    calls,              \* the calls in flight on the manager, one per caller
    renders,            \* history: files saved since the cache was last invalidated
    stop_loading,       \* the module global of src/backend/inference.py
    chat_calls,         \* the blocking_chat / blocking_summary_chat calls
    loading_threads,    \* the loading_indicator thread of each chat caller
    users,              \* table users of the multi-user store
    emergency_profiles, \* table emergency_profiles of the multi-user store
    qr_dir              \* the files of QR_DIR: file name -> content

concurrent_vars == <<calls, renders>>

chat_vars == <<stop_loading, chat_calls, loading_threads>>

multi_user_vars == <<users, emergency_profiles, qr_dir>>

\* what the sequential calls on one manager never touch
other_vars == <<db_locked, concurrent_vars, chat_vars, multi_user_vars>>

vars == <<now, patient_info, allergies, medications, emergency_contact, vitals,
          qr_file, since_render, profile, last, text_log, other_vars>>

store == <<patient_info, allergies, medications, emergency_contact, vitals>>

-----------------------------------------------------------------------------
(* Bounds of the model *)

MaxNow == 2
MaxAllergies == 1
MaxMedications == 1
MaxVitals == 1
MaxSynthAllergies == 2
MaxSynthMedications == 2
MaxVitalsLog == 12

-----------------------------------------------------------------------------
(* Program constants, in ticks of 30 minutes where they are durations *)

TicksPerDay == 48
CacheMaxAge == 2
EmergencyVitalsWindow == 144
WeekWindow == 336
LastVitals == 10
LastSurgeries == 5
QrCapacity == 2953

None == <<>>

Some(v) == <<v>>

-----------------------------------------------------------------------------
(* Enums *)

BloodTypeValue ==
    [A_POSITIVE |-> "A+", A_NEGATIVE |-> "A-", B_POSITIVE |-> "B+",
     B_NEGATIVE |-> "B-", AB_POSITIVE |-> "AB+", AB_NEGATIVE |-> "AB-",
     O_POSITIVE |-> "O+", O_NEGATIVE |-> "O-", UNKNOWN |-> "Unknown"]

BloodType(value) == CHOOSE m \in DOMAIN BloodTypeValue : BloodTypeValue[m] = value

SeverityValue ==
    [CRITICAL |-> "critical", HIGH |-> "high", MODERATE |-> "moderate", LOW |-> "low"]

SeverityMembers == DOMAIN SeverityValue

SeverityLevel(value) == CHOOSE m \in SeverityMembers : SeverityValue[m] = value

-----------------------------------------------------------------------------
(* Calendar: datetime arithmetic and strftime *)

IsLeap(y) == (y % 4 = 0 /\ y % 100 # 0) \/ y % 400 = 0

DaysInMonth(y, m) ==
    IF m = 2 THEN (IF IsLeap(y) THEN 29 ELSE 28)
    ELSE IF m \in {4, 6, 9, 11} THEN 30 ELSE 31

NextDay(d) ==
    IF d[3] < DaysInMonth(d[1], d[2]) THEN <<d[1], d[2], d[3] + 1>>
    ELSE IF d[2] < 12 THEN <<d[1], d[2] + 1, 1>>
    ELSE <<d[1] + 1, 1, 1>>

\* the first day of the month after the month of d
NextMonth(d) == IF d[2] < 12 THEN <<d[1], d[2] + 1, 1>> ELSE <<d[1] + 1, 1, 1>>

\* d + timedelta(days=n); whole months are stepped over at once
RECURSIVE AddDays(_, _)
AddDays(d, n) ==
    IF n = 0 THEN d
    ELSE IF d[3] = 1 /\ n >= DaysInMonth(d[1], d[2])
    THEN AddDays(NextMonth(d), n - DaysInMonth(d[1], d[2]))
    ELSE AddDays(NextDay(d), n - 1)

EpochDate == <<2024, 6, 10>>

\* datetime.date() of the datetime at tick t
DateOf(t) == AddDays(EpochDate, t \div TicksPerDay)

Pad2(n) == IF n < 10 THEN "0" \o ToString(n) ELSE ToString(n)

Pad4(n) ==
    IF n < 10 THEN "000" \o ToString(n)
    ELSE IF n < 100 THEN "00" \o ToString(n)
    ELSE IF n < 1000 THEN "0" \o ToString(n)
    ELSE ToString(n)

\* date.strftime("%Y-%m-%d")
StrfDate(d) == Pad4(d[1]) \o "-" \o Pad2(d[2]) \o "-" \o Pad2(d[3])

\* datetime.strftime("%Y-%m-%d") of the datetime at tick t
StrfDay(t) == StrfDate(DateOf(t))

\* datetime.strftime("%Y-%m-%d %H:%M") of the datetime at tick t
StrfMinute(t) ==
    StrfDay(t) \o " " \o Pad2((t % TicksPerDay) \div 2) \o ":" \o Pad2((t % 2) * 30)

\* date ordering, as Python compares dates
DateLess(a, b) ==
    \/ a[1] < b[1]
    \/ a[1] = b[1] /\ a[2] < b[2]
    \/ a[1] = b[1] /\ a[2] = b[2] /\ a[3] < b[3]

-----------------------------------------------------------------------------
(* sqlite: rows, INSERT and INSERT OR REPLACE *)

\* bool(x) of an sqlite BOOLEAN column read back as an integer
Bool(x) == x # 0

\* a Python bool bound to an sqlite parameter
SqlBool(b) == IF b THEN 1 ELSE 0

RECURSIVE MaxId(_)
MaxId(table) ==
    IF table = <<>> THEN 0
    ELSE LET m == MaxId(Tail(table)) IN IF Head(table).id > m THEN Head(table).id ELSE m

\* the rowid sqlite assigns to a row inserted without an id
NextRowId(table) == MaxId(table) + 1

RECURSIVE InsertByRowId(_, _)
InsertByRowId(table, row) ==
    IF table = <<>> THEN <<row>>
    ELSE IF row.id < Head(table).id THEN <<row>> \o table
    ELSE <<Head(table)>> \o InsertByRowId(Tail(table), row)

\* a faulty upsert, INSERT OR IGNORE: a row whose id is taken is not written
InsertOrReplace_ignoring(table, row) ==
    IF \E i \in 1..Len(table) : table[i].id = row.id THEN table
    ELSE InsertByRowId(table, row)

\* INSERT OR REPLACE: the only uniqueness constraint of every table is its
\* INTEGER PRIMARY KEY, so the rows deleted are those with the new row's id.
InsertOrReplace(table, row) ==
    InsertByRowId(SelectSeq(table, LAMBDA r : r.id # row.id), row)

\* INSERT of a row whose id is not given
Insert(table, fields) == Append(table, fields @@ [id |-> NextRowId(table)])

\* INSERT OR REPLACE of a row whose id is not given
InsertOrReplaceNoId(table, fields) ==
    InsertOrReplace(table, fields @@ [id |-> NextRowId(table)])

-----------------------------------------------------------------------------
(* EmergencyProfile: _calculate_age and to_emergency_dict *)

\* date.replace(year=y) raises ValueError when the day does not exist in year y
ReplaceYearRaises(d, y) == d[3] > DaysInMonth(y, d[2])

calculate_age(date_of_birth, today) ==
    LET age == today[1] - date_of_birth[1]
    IN  IF DateLess(today, <<today[1], date_of_birth[2], date_of_birth[3]>>)
        THEN age - 1
        ELSE age

\* self.recent_vitals[-n:] and self.surgeries[-n:]
LastN(s, n) == IF Len(s) <= n THEN s ELSE SubSeq(s, Len(s) - n + 1, Len(s))

Map(f(_), s) == [i \in 1..Len(s) |-> f(s[i])]

\* a faulty allergy filter: only critical allergies are kept
EmergencyAllergies_critical_only(p) ==
    SelectSeq(p.allergies, LAMBDA a : a.severity = "CRITICAL")

\* the allergies to_emergency_dict lists
EmergencyAllergies(p) ==
    SelectSeq(p.allergies, LAMBDA a : a.severity \in {"CRITICAL", "HIGH"})

\* the conditions to_emergency_dict lists
EmergencyConditions(p) ==
    SelectSeq(p.medical_conditions, LAMBDA c : c.current_status = "active")

\* the vitals to_emergency_dict lists, evaluated at tick t
EmergencyVitals(p, t) ==
    SelectSeq(LastN(p.recent_vitals, LastVitals),
              LAMBDA v : v.is_abnormal \/ v.recorded_date > t - EmergencyVitalsWindow)

\* the surgeries to_emergency_dict lists
EmergencySurgeries(p) == LastN(p.surgeries, LastSurgeries)

AllergyDict(a) ==
    [substance |-> a.substance, reaction |-> a.reaction,
     severity |-> SeverityValue[a.severity]]

MedicationDict(m) == [name |-> m.name, dosage |-> m.dosage, critical |-> m.is_critical]

ConditionDict(c) ==
    [condition |-> c.condition, status |-> c.current_status,
     severity |-> SeverityValue[c.severity]]

VitalDict(v) ==
    [type |-> v.metric_type, value |-> v.value, date |-> StrfDay(v.recorded_date),
     abnormal |-> v.is_abnormal]

SurgeryDict(s) ==
    [procedure |-> s.procedure, date |-> StrfDay(s.date), implants |-> s.implants_devices]

\* to_emergency_dict raises when _calculate_age does
to_emergency_dict_raises(p, t) == ReplaceYearRaises(p.date_of_birth, DateOf(t)[1])

to_emergency_dict(p, t) ==
    [patient |->
        [name |-> p.patient_name,
         age |-> calculate_age(p.date_of_birth, DateOf(t)),
         dob |-> StrfDate(p.date_of_birth),
         blood_type |-> BloodTypeValue[p.blood_type],
         gender |-> p.gender,
         weight_kg |-> p.weight_kg,
         height_cm |-> p.height_cm],
     critical_allergies |-> Map(AllergyDict, EmergencyAllergies(p)),
     current_medications |-> Map(MedicationDict, p.medications),
     conditions |-> Map(ConditionDict, EmergencyConditions(p)),
     devices |-> p.medical_devices,
     emergency_contact |->
        [name |-> p.emergency_contact.name,
         phone |-> p.emergency_contact.phone,
         relationship |-> p.emergency_contact.relationship],
     doctor |-> [name |-> p.primary_doctor, phone |-> p.primary_doctor_phone],
     recent_vitals |-> Map(VitalDict, EmergencyVitals(p, t)),
     major_surgeries |-> Map(SurgeryDict, EmergencySurgeries(p)),
     directives |-> p.advance_directives,
     updated |-> StrfMinute(p.last_updated)]

-----------------------------------------------------------------------------
(* generate_emergency_profile: the reads of the store *)

\* SELECT * FROM patient_info WHERE id = 1
PatientRows(pi) == SelectSeq(pi, LAMBDA r : r.id = 1)

\* SELECT * FROM medications WHERE is_active = TRUE
ActiveMedicationRows(me) == SelectSeq(me, LAMBDA r : r.is_active = 1)

\* SELECT * FROM emergency_contact WHERE is_primary = TRUE
PrimaryContactRows(ec) == SelectSeq(ec, LAMBDA r : r.is_primary = 1)

RECURSIVE InsertDesc(_, _)
InsertDesc(sorted, row) ==
    IF sorted = <<>> THEN <<row>>
    ELSE IF row.recorded_date > Head(sorted).recorded_date THEN <<row>> \o sorted
    ELSE <<Head(sorted)>> \o InsertDesc(Tail(sorted), row)

\* a faulty query: the ORDER BY is missing and the rows come in rowid order
OrderByRecordedDateDesc_unordered(rows) == rows

RECURSIVE OrderByRecordedDateDesc(_)
OrderByRecordedDateDesc(rows) ==
    IF rows = <<>> THEN <<>>
    ELSE InsertDesc(OrderByRecordedDateDesc(SubSeq(rows, 1, Len(rows) - 1)),
                    rows[Len(rows)])

\* SELECT * FROM vitals WHERE recorded_date > week_ago ORDER BY recorded_date DESC
RecentVitalRows(vi, t) ==
    OrderByRecordedDateDesc(SelectSeq(vi, LAMBDA r : r.recorded_date > t - WeekWindow))

AllergyOfRow(row) ==
    [substance |-> row.substance, reaction |-> row.reaction,
     severity |-> SeverityLevel(row.severity), verified_date |-> row.verified_date]

\* a faulty row decoding: is_critical is read from the is_active column
MedicationOfRow_wrong_column(row) ==
    [name |-> row.name, dosage |-> row.dosage, frequency |-> row.frequency,
     prescribing_doctor |-> row.prescribing_doctor, start_date |-> row.start_date,
     is_critical |-> Bool(row.is_active), notes |-> row.notes]

MedicationOfRow(row) ==
    [name |-> row.name, dosage |-> row.dosage, frequency |-> row.frequency,
     prescribing_doctor |-> row.prescribing_doctor, start_date |-> row.start_date,
     is_critical |-> Bool(row.is_critical), notes |-> row.notes]

VitalOfRow(row) ==
    [metric_type |-> row.metric_type, value |-> row.value, unit |-> row.unit,
     recorded_date |-> row.recorded_date, source |-> row.source,
     is_abnormal |-> Bool(row.is_abnormal)]

\* a faulty contact decoding: without a row the fields are left blank
ContactOfRows_blank(rows) ==
    IF rows # <<>>
    THEN [name |-> rows[1].name, relationship |-> rows[1].relationship,
          phone |-> rows[1].phone, alternate_phone |-> rows[1].alternate_phone]
    ELSE [name |-> "", relationship |-> "", phone |-> "", alternate_phone |-> None]

ContactOfRows(rows) ==
    IF rows # <<>>
    THEN [name |-> rows[1].name, relationship |-> rows[1].relationship,
          phone |-> rows[1].phone, alternate_phone |-> rows[1].alternate_phone]
    ELSE [name |-> "Not Set", relationship |-> "Unknown", phone |-> "Not Set",
          alternate_phone |-> None]

\* generate_emergency_profile raises ValueError: no patient row
ProfileNotSet(pi) == PatientRows(pi) = <<>>

\* the EmergencyProfile generate_emergency_profile returns at tick t
EmergencyProfileOf(pi, al, me, ec, vi, t) ==
    LET patient_row == PatientRows(pi)[1]
    IN  [patient_name |-> patient_row.name,
         date_of_birth |-> patient_row.date_of_birth,
         blood_type |-> BloodType(patient_row.blood_type),
         gender |-> patient_row.gender,
         allergies |-> Map(AllergyOfRow, al),
         medications |-> Map(MedicationOfRow, ActiveMedicationRows(me)),
         medical_conditions |-> <<>>,
         surgeries |-> <<>>,
         emergency_contact |-> ContactOfRows(PrimaryContactRows(ec)),
         recent_vitals |-> Map(VitalOfRow, RecentVitalRows(vi, t)),
         last_updated |-> t,
         weight_kg |-> None,
         height_cm |-> None,
         primary_doctor |-> None,
         primary_doctor_phone |-> None,
         medical_devices |-> <<>>,
         advance_directives |-> None]

-----------------------------------------------------------------------------
(* json.dumps(emergency_data, separators=(',', ':')) *)

Quote(s) == "\"" \o s \o "\""

JsonBool(b) == IF b THEN "true" ELSE "false"

JsonOptStr(o) == IF o = None THEN "null" ELSE Quote(o[1])

\* a float holding a whole number prints with one decimal
JsonOptFloat(o) == IF o = None THEN "null" ELSE ToString(o[1]) \o ".0"

\* a faulty separator: json.dumps without separators=(',', ':') puts a blank
\* after every comma
RECURSIVE Join_spaced(_)
Join_spaced(items) ==
    IF items = <<>> THEN ""
    ELSE IF Len(items) = 1 THEN items[1]
    ELSE items[1] \o ", " \o Join_spaced(Tail(items))

RECURSIVE Join(_)
Join(items) ==
    IF items = <<>> THEN ""
    ELSE IF Len(items) = 1 THEN items[1]
    ELSE items[1] \o "," \o Join(Tail(items))

JsonList(items) == "[" \o Join(items) \o "]"

JsonAllergy(a) ==
    ("{\"substance\":" \o Quote(a.substance) \o ",\"reaction\":") \o Quote(a.reaction)
    \o (",\"severity\":" \o Quote(a.severity) \o "}")

JsonMedication(m) ==
    "{\"name\":" \o Quote(m.name) \o ",\"dosage\":" \o Quote(m.dosage)
    \o ",\"critical\":" \o JsonBool(m.critical) \o "}"

JsonCondition(c) ==
    "{\"condition\":" \o Quote(c.condition) \o ",\"status\":" \o Quote(c.status)
    \o ",\"severity\":" \o Quote(c.severity) \o "}"

JsonVital(v) ==
    "{\"type\":" \o Quote(v.type) \o ",\"value\":" \o Quote(v.value)
    \o ",\"date\":" \o Quote(v.date) \o ",\"abnormal\":" \o JsonBool(v.abnormal) \o "}"

JsonSurgery(s) ==
    "{\"procedure\":" \o Quote(s.procedure) \o ",\"date\":" \o Quote(s.date)
    \o ",\"implants\":" \o JsonOptStr(s.implants) \o "}"

\* the concatenation of the strings parts[lo..hi]
RECURSIVE Concat(_, _, _)
Concat(parts, lo, hi) ==
    IF lo > hi THEN ""
    ELSE IF lo = hi THEN parts[lo]
    ELSE LET mid == (lo + hi) \div 2
         IN  Concat(parts, lo, mid) \o Concat(parts, mid + 1, hi)

JsonDumps(d) ==
    LET parts ==
          <<"{\"patient\":{\"name\":", Quote(d.patient.name),
            ",\"age\":", ToString(d.patient.age),
            ",\"dob\":", Quote(d.patient.dob),
            ",\"blood_type\":", Quote(d.patient.blood_type),
            ",\"gender\":", Quote(d.patient.gender),
            ",\"weight_kg\":", JsonOptFloat(d.patient.weight_kg),
            ",\"height_cm\":", JsonOptFloat(d.patient.height_cm),
            "},\"critical_allergies\":", JsonList(Map(JsonAllergy, d.critical_allergies)),
            ",\"current_medications\":",
                JsonList(Map(JsonMedication, d.current_medications)),
            ",\"conditions\":", JsonList(Map(JsonCondition, d.conditions)),
            ",\"devices\":", JsonList(Map(Quote, d.devices)),
            ",\"emergency_contact\":{\"name\":", Quote(d.emergency_contact.name),
            ",\"phone\":", Quote(d.emergency_contact.phone),
            ",\"relationship\":", Quote(d.emergency_contact.relationship),
            "},\"doctor\":{\"name\":", JsonOptStr(d.doctor.name),
            ",\"phone\":", JsonOptStr(d.doctor.phone),
            "},\"recent_vitals\":", JsonList(Map(JsonVital, d.recent_vitals)),
            ",\"major_surgeries\":", JsonList(Map(JsonSurgery, d.major_surgeries)),
            ",\"directives\":", JsonOptStr(d.directives),
            ",\"updated\":", Quote(d.updated), "}">>
    IN  Concat(parts, 1, Len(parts))

-----------------------------------------------------------------------------
(* generate_emergency_qr: the cache check and the encoder *)

\* qr_content = f"MEDICAL_EMERGENCY:{json_data}"
QrContent(d) == "MEDICAL_EMERGENCY:" \o JsonDumps(d)

\* a faulty encoder: the capacity is never checked
QrOverflows_unchecked(content) == FALSE

\* qr.make(fit=True) raises DataOverflowError: the content does not fit the
\* largest symbol (version 40) at error correction L in byte mode
QrOverflows(content) == Len(content) > QrCapacity

\* a faulty cache check: a file exactly 1 hour old still counts as fresh
CacheIsFresh_inclusive(file, t) == file # None /\ file[1].mtime >= t - CacheMaxAge

\* the cached file exists and is less than 1 hour old
CacheIsFresh(file, t) == file # None /\ file[1].mtime > t - CacheMaxAge

\* a faulty _invalidate_qr_cache: the file is left in place
invalidate_qr_cache_keeps_file(file) == file

\* _invalidate_qr_cache: unlink the file when it exists
invalidate_qr_cache(file) == IF file # None THEN None ELSE file

\* the path generate_emergency_qr returns
QrCachePath == "emergency_qr.png"

-----------------------------------------------------------------------------
(* export_emergency_profile_text *)

TextAllergyLine(a) == "  - " \o a.substance \o ": " \o a.reaction

\* a faulty medication line: every medication is flagged
TextMedicationLine_always_flagged(m) ==
    "  - " \o m.name \o " " \o m.dosage \o " " \o m.frequency \o " [CRITICAL]"

TextMedicationLine(m) ==
    "  - " \o m.name \o " " \o m.dosage \o " " \o m.frequency
    \o (IF m.is_critical THEN " [CRITICAL]" ELSE "")

\* the allergies the text export lists
TextAllergies(p) == SelectSeq(p.allergies, LAMBDA a : a.severity = "CRITICAL")

\* the header and the patient block
TextHeader(p, t) ==
    <<"=== EMERGENCY MEDICAL INFORMATION ===",
      "Patient: " \o p.patient_name,
      "DOB: " \o StrfDate(p.date_of_birth) \o " (Age: "
          \o ToString(calculate_age(p.date_of_birth, DateOf(t))) \o ")",
      "Blood Type: " \o BloodTypeValue[p.blood_type],
      "Gender: " \o p.gender,
      "",
      "CRITICAL ALLERGIES:">>

\* the lines below "CRITICAL ALLERGIES:"
TextAllergyBlock(p) ==
    IF TextAllergies(p) # <<>> THEN Map(TextAllergyLine, TextAllergies(p))
    ELSE <<"  None reported">>

\* the lines below "CURRENT MEDICATIONS:"
TextMedicationBlock(p) ==
    IF p.medications # <<>> THEN Map(TextMedicationLine, p.medications)
    ELSE <<"  None reported">>

\* the contact block and the "Updated:" line
TextFooter(p) ==
    <<"",
      "Emergency Contact: " \o p.emergency_contact.name \o " ("
          \o p.emergency_contact.relationship \o ")",
      "Phone: " \o p.emergency_contact.phone,
      "Updated: " \o StrfMinute(p.last_updated)>>

TextLines(p, t) ==
    TextHeader(p, t) \o TextAllergyBlock(p) \o <<"", "CURRENT MEDICATIONS:">>
    \o TextMedicationBlock(p) \o TextFooter(p)

RECURSIVE JoinLines(_)
JoinLines(lines) ==
    IF lines = <<>> THEN ""
    ELSE IF Len(lines) = 1 THEN lines[1]
    ELSE lines[1] \o "\n" \o JoinLines(Tail(lines))

-----------------------------------------------------------------------------
(* The operations of EmergencyProfileManager *)

\* the record of a call: the method, whether a profile was passed, how it ended
\* ("ok", "cached", "rendered" or the exception raised), what it returned, and
\* the qr_content it handed to the QR encoder
Call(op, arg, outcome, returned) ==
    [op |-> op, arg |-> arg, outcome |-> outcome, returned |-> returned,
     encoded |-> None]

\* the history after a mutation has returned
SinceRenderAfterMutation(h) == IF h = "never" THEN "never" ELSE "mutated"

MutationOps ==
    {"update_patient_info", "add_allergy", "add_medication", "add_vital_metric",
     "set_emergency_contact"}

Raised == {"ValueError", "DataOverflowError"}

\* what a mutation raises: an attribute read of None, a NOT NULL column given
\* NULL, a write lock that stays taken for the 5 seconds sqlite3 waits
MutationRaised == {"AttributeError", "IntegrityError", "OperationalError"}

update_patient_info(name, dob, blood_type, gender, weight_kg, height_cm) ==
    /\ ~db_locked
    /\ patient_info' = InsertOrReplace(patient_info,
            [id |-> 1, name |-> name, date_of_birth |-> dob,
             blood_type |-> BloodTypeValue[blood_type], gender |-> gender,
             weight_kg |-> weight_kg, height_cm |-> height_cm])
    /\ qr_file' = invalidate_qr_cache(qr_file)
    /\ since_render' = SinceRenderAfterMutation(since_render)
    /\ last' = Call("update_patient_info", "-", "ok", None)
    /\ text_log' = None
    /\ UNCHANGED other_vars
    /\ UNCHANGED <<now, allergies, medications, emergency_contact, vitals, profile>>

add_allergy(substance, reaction, severity) ==
    /\ ~db_locked
    /\ allergies' = InsertOrReplaceNoId(allergies,
            [substance |-> substance, reaction |-> reaction,
             severity |-> SeverityValue[severity], verified_date |-> Some(now)])
    /\ qr_file' = invalidate_qr_cache(qr_file)
    /\ since_render' = SinceRenderAfterMutation(since_render)
    /\ last' = Call("add_allergy", "-", "ok", None)
    /\ text_log' = None
    /\ UNCHANGED other_vars
    /\ UNCHANGED <<now, patient_info, medications, emergency_contact, vitals, profile>>

\* a faulty add_medication: the earlier rows of the same name are marked inactive
add_medication_deactivating(name, dosage, frequency, doctor, start_date, is_critical) ==
    /\ ~db_locked
    /\ medications' = Insert(
            [i \in 1..Len(medications) |->
                IF medications[i].name = name
                THEN [medications[i] EXCEPT !.is_active = 0]
                ELSE medications[i]],
            [name |-> name, dosage |-> dosage, frequency |-> frequency,
             prescribing_doctor |-> doctor, start_date |-> start_date,
             is_critical |-> SqlBool(is_critical), is_active |-> 1, notes |-> None])
    /\ qr_file' = invalidate_qr_cache(qr_file)
    /\ since_render' = SinceRenderAfterMutation(since_render)
    /\ last' = Call("add_medication", "-", "ok", None)
    /\ text_log' = None
    /\ UNCHANGED other_vars
    /\ UNCHANGED <<now, patient_info, allergies, emergency_contact, vitals, profile>>

add_medication(name, dosage, frequency, doctor, start_date, is_critical) ==
    /\ ~db_locked
    /\ medications' = Insert(medications,
            [name |-> name, dosage |-> dosage, frequency |-> frequency,
             prescribing_doctor |-> doctor, start_date |-> start_date,
             is_critical |-> SqlBool(is_critical), is_active |-> 1, notes |-> None])
    /\ qr_file' = invalidate_qr_cache(qr_file)
    /\ since_render' = SinceRenderAfterMutation(since_render)
    /\ last' = Call("add_medication", "-", "ok", None)
    /\ text_log' = None
    /\ UNCHANGED other_vars
    /\ UNCHANGED <<now, patient_info, allergies, emergency_contact, vitals, profile>>

\* Two calls never read the same microsecond of the clock: a vital is recorded
\* strictly later than every vital recorded before it.
add_vital_metric(metric_type, value, unit, source, is_abnormal) ==
    /\ ~db_locked
    /\ \A i \in 1..Len(vitals) : vitals[i].recorded_date < now
    /\ vitals' = Insert(vitals,
            [metric_type |-> metric_type, value |-> value, unit |-> unit,
             recorded_date |-> now, source |-> source,
             is_abnormal |-> SqlBool(is_abnormal)])
    /\ qr_file' = invalidate_qr_cache(qr_file)
    /\ since_render' = SinceRenderAfterMutation(since_render)
    /\ last' = Call("add_vital_metric", "-", "ok", None)
    /\ text_log' = None
    /\ UNCHANGED other_vars
    /\ UNCHANGED <<now, patient_info, allergies, medications, emergency_contact, profile>>

set_emergency_contact(name, relationship, phone, alternate_phone) ==
    /\ ~db_locked
    /\ emergency_contact' = InsertOrReplace(emergency_contact,
            [id |-> 1, name |-> name, relationship |-> relationship, phone |-> phone,
             alternate_phone |-> alternate_phone, is_primary |-> 1])
    /\ qr_file' = invalidate_qr_cache(qr_file)
    /\ since_render' = SinceRenderAfterMutation(since_render)
    /\ last' = Call("set_emergency_contact", "-", "ok", None)
    /\ text_log' = None
    /\ UNCHANGED other_vars
    /\ UNCHANGED <<now, patient_info, allergies, medications, vitals, profile>>

\* the arguments of each mutation that are stored in a NOT NULL column
RequiredArguments ==
    [update_patient_info |-> {"name", "dob", "blood_type", "gender"},
     add_allergy |-> {"substance", "reaction", "severity"},
     add_medication |-> {"name", "dosage", "frequency", "doctor", "start_date"},
     add_vital_metric |-> {"metric_type", "value", "unit", "source"},
     set_emergency_contact |-> {"name", "relationship", "phone"}]

\* the arguments of each mutation of which the statement's parameters read an
\* attribute (dob.isoformat(), blood_type.value, severity.value,
\* start_date.isoformat()), before anything is executed
DereferencedArguments ==
    [update_patient_info |-> {"dob", "blood_type"},
     add_allergy |-> {"severity"},
     add_medication |-> {"start_date"},
     add_vital_metric |-> {},
     set_emergency_contact |-> {}]

\* how a mutation ends that is called with None for the arguments in missing
MissingOutcome(op, missing) ==
    IF missing \cap DereferencedArguments[op] # {} THEN "AttributeError"
    ELSE IF db_locked THEN "OperationalError"
    ELSE "IntegrityError"

\* a faulty rejection: the REPLACE of the statement deletes the row it
\* conflicts with before the NOT NULL constraint fails, and nothing undoes it
call_without_replacing(op, missing) ==
    /\ missing # {}
    /\ missing \subseteq RequiredArguments[op]
    /\ patient_info' = IF op = "update_patient_info" THEN <<>> ELSE patient_info
    /\ emergency_contact' =
            IF op = "set_emergency_contact" THEN <<>> ELSE emergency_contact
    /\ db_locked' = (db_locked \/ MissingOutcome(op, missing) = "IntegrityError")
    /\ last' = Call(op, "missing", MissingOutcome(op, missing), None)
    /\ UNCHANGED <<concurrent_vars, chat_vars, multi_user_vars>>
    /\ UNCHANGED <<now, allergies, medications, vitals, qr_file, since_render,
                   profile, text_log>>

\* a mutation called with None for the arguments in missing.  An attribute read
\* of None raises before the statement is executed.  Otherwise the statement
\* starts a write transaction and fails on the NOT NULL constraint: sqlite
\* aborts the statement and undoes what it did, the exception leaves the
\* method before commit() and close(), and the connection, which nothing
\* closes, keeps the write lock of its open transaction.  The cache is not
\* invalidated: _invalidate_qr_cache is not reached.
call_without(op, missing) ==
    /\ missing # {}
    /\ missing \subseteq RequiredArguments[op]
    /\ db_locked' = (db_locked \/ MissingOutcome(op, missing) = "IntegrityError")
    /\ last' = Call(op, "missing", MissingOutcome(op, missing), None)
    /\ UNCHANGED <<concurrent_vars, chat_vars, multi_user_vars>>
    /\ UNCHANGED <<now, patient_info, allergies, medications, emergency_contact,
                   vitals, qr_file, since_render, profile, text_log>>

\* a mutation with all its arguments, called while an unclosed connection holds
\* the write lock: execute() waits 5 seconds and raises "database is locked"
database_is_locked(op) ==
    /\ db_locked
    /\ last' = Call(op, "-", "OperationalError", None)
    /\ UNCHANGED other_vars
    /\ UNCHANGED <<now, patient_info, allergies, medications, emergency_contact,
                   vitals, qr_file, since_render, profile, text_log>>

\* the garbage collector finalizes the unclosed connection: its transaction is
\* rolled back and the write lock released
close_leaked_connection ==
    /\ db_locked
    /\ db_locked' = FALSE
    /\ UNCHANGED <<concurrent_vars, chat_vars, multi_user_vars>>
    /\ UNCHANGED <<now, patient_info, allergies, medications, emergency_contact,
                   vitals, qr_file, since_render, profile, last, text_log>>

\* a faulty generate_emergency_profile: without a patient row it returns an
\* empty result instead of raising
generate_emergency_profile_returns_empty ==
    /\ IF ProfileNotSet(patient_info)
       THEN /\ last' = Call("generate_emergency_profile", "-", "ok", None)
            /\ profile' = None
       ELSE /\ profile' = Some(EmergencyProfileOf(patient_info, allergies, medications,
                                                  emergency_contact, vitals, now))
            /\ last' = Call("generate_emergency_profile", "-", "ok", None)
    /\ UNCHANGED other_vars
    /\ UNCHANGED <<now, patient_info, allergies, medications, emergency_contact, vitals,
                   qr_file, since_render, text_log>>

\* s in reverse order
Reverse(s) == [i \in 1..Len(s) |-> s[Len(s) + 1 - i]]

\* a faulty generate_emergency_profile: the vitals query has no ORDER BY and
\* returns its rows most recent first in one run and oldest first in another
generate_emergency_profile_any_order ==
    /\ IF ProfileNotSet(patient_info)
       THEN /\ last' = Call("generate_emergency_profile", "-", "ValueError", None)
            /\ UNCHANGED profile
       ELSE /\ \E reversed \in BOOLEAN :
                 LET p == EmergencyProfileOf(patient_info, allergies, medications,
                                             emergency_contact, vitals, now)
                 IN  profile' = Some(IF reversed
                                     THEN [p EXCEPT !.recent_vitals = Reverse(@)]
                                     ELSE p)
            /\ last' = Call("generate_emergency_profile", "-", "ok", None)
    /\ UNCHANGED other_vars
    /\ UNCHANGED <<now, patient_info, allergies, medications, emergency_contact, vitals,
                   qr_file, since_render, text_log>>

\* profile = manager.generate_emergency_profile()
generate_emergency_profile ==
    /\ IF ProfileNotSet(patient_info)
       THEN /\ last' = Call("generate_emergency_profile", "-", "ValueError", None)
            /\ UNCHANGED profile
       ELSE /\ profile' = Some(EmergencyProfileOf(patient_info, allergies, medications,
                                                  emergency_contact, vitals, now))
            /\ last' = Call("generate_emergency_profile", "-", "ok", None)
    /\ UNCHANGED other_vars
    /\ UNCHANGED <<now, patient_info, allergies, medications, emergency_contact, vitals,
                   qr_file, since_render, text_log>>

\* the profile a call works on: its argument, or the one it generates itself
ProfileArg(with_profile) ==
    IF with_profile THEN profile[1]
    ELSE EmergencyProfileOf(patient_info, allergies, medications, emergency_contact,
                            vitals, now)

\* how generate_emergency_qr ends, qr_content being the payload it would encode
QrOutcome(with_profile, qr_content) ==
    IF ~with_profile /\ ProfileNotSet(patient_info) THEN "ValueError"
    ELSE IF CacheIsFresh(qr_file, now) THEN "cached"
    ELSE IF to_emergency_dict_raises(ProfileArg(with_profile), now) THEN "ValueError"
    ELSE IF QrOverflows(qr_content) THEN "DataOverflowError"
    ELSE "rendered"

\* manager.generate_emergency_qr(profile) and manager.generate_emergency_qr()
generate_emergency_qr(with_profile) ==
    /\ with_profile => profile # None
    /\ LET qr_content == QrContent(to_emergency_dict(ProfileArg(with_profile), now))
           outcome == QrOutcome(with_profile, qr_content)
       IN  /\ IF outcome = "rendered"
              THEN /\ qr_file' = Some([mtime |-> now, content |-> qr_content])
                   /\ since_render' = "clean"
              ELSE UNCHANGED <<qr_file, since_render>>
           /\ last' = [Call("generate_emergency_qr",
                            IF with_profile THEN "profile" ELSE "none",
                            outcome,
                            IF outcome \in Raised THEN None ELSE Some(QrCachePath))
                       EXCEPT !.encoded =
                            IF outcome \in {"rendered", "DataOverflowError"}
                            THEN Some(qr_content) ELSE None]
    /\ UNCHANGED other_vars
    /\ UNCHANGED <<now, patient_info, allergies, medications, emergency_contact, vitals,
                   profile, text_log>>

\* how export_emergency_profile_text ends
TextOutcome(with_profile) ==
    IF ~with_profile /\ ProfileNotSet(patient_info) THEN "ValueError"
    ELSE IF to_emergency_dict_raises(ProfileArg(with_profile), now) THEN "ValueError"
    ELSE "ok"

\* a faulty export: the caller's earlier profile is rendered when there is one
export_emergency_profile_text_reusing(with_profile) ==
    /\ with_profile => profile # None
    /\ LET outcome == TextOutcome(with_profile)
           p == IF profile # None THEN profile[1] ELSE ProfileArg(with_profile)
       IN  last' = Call("export_emergency_profile_text",
                        IF with_profile THEN "profile" ELSE "none",
                        outcome,
                        IF outcome \in Raised THEN None
                        ELSE Some(JoinLines(TextLines(p, now))))
    /\ UNCHANGED other_vars
    /\ UNCHANGED <<now, patient_info, allergies, medications, emergency_contact, vitals,
                   qr_file, since_render, profile>>

\* manager.export_emergency_profile_text(profile) and ...text(); the history
\* text_log is written by the specification that makes the call
export_emergency_profile_text(with_profile) ==
    /\ with_profile => profile # None
    /\ LET outcome == TextOutcome(with_profile)
       IN  last' = Call("export_emergency_profile_text",
                        IF with_profile THEN "profile" ELSE "none",
                        outcome,
                        IF outcome \in Raised THEN None
                        ELSE Some(JoinLines(TextLines(ProfileArg(with_profile), now))))
    /\ UNCHANGED other_vars
    /\ UNCHANGED <<now, patient_info, allergies, medications, emergency_contact, vitals,
                   qr_file, since_render, profile>>

\* how profile._calculate_age() ends
AgeOutcome ==
    IF ReplaceYearRaises(profile[1].date_of_birth, DateOf(now)[1]) THEN "ValueError"
    ELSE "ok"

\* profile._calculate_age(), called on the caller's profile
CalculateAge ==
    /\ profile # None
    /\ last' = Call("_calculate_age", "profile", AgeOutcome,
                    IF AgeOutcome \in Raised THEN None
                    ELSE Some(calculate_age(profile[1].date_of_birth, DateOf(now))))
    /\ UNCHANGED other_vars
    /\ UNCHANGED <<now, patient_info, allergies, medications, emergency_contact, vitals,
                   qr_file, since_render, profile, text_log>>

\* time passes between two calls
Tick ==
    /\ now < MaxNow
    /\ now' = now + 1
    /\ last' = Call("tick", "-", "ok", None)
    /\ UNCHANGED <<other_vars, patient_info, allergies, medications,
                   emergency_contact, vitals, qr_file, since_render, profile,
                   text_log>>

-----------------------------------------------------------------------------
(* What the sequential specifications leave at rest *)

MaxCallers == 2

Callers == 1..MaxCallers

\* the result sets a generate_emergency_profile has fetched so far
NoRows ==
    [patient_info |-> <<>>, allergies |-> <<>>, medications |-> <<>>,
     emergency_contact |-> <<>>]

\* a caller with no call on the manager.  A call carries the method and its
\* arguments, the statement it is at, its local variables (the rows fetched,
\* the profile, the qr_content, whether the file it has opened for writing is
\* still the one at qr_cache_path and whether another writer has the same file
\* open), how it ended and what it returned; and as history the content of the
\* file at the path it returned at the time it returned, the states of the
\* store since it began, and whether the store is as it was when it began (no
\* mutation was in flight then or has begun since)
IdleCall ==
    [op |-> "-", pc |-> "idle", args |-> <<>>, rows |-> NoRows, profile |-> None,
     content |-> None, linked |-> FALSE, shared |-> FALSE, outcome |-> "-",
     returned |-> None, artifact |-> None, seen |-> {}, clean |-> FALSE]

MaxChatCallers == 2

ChatCallers == 1..MaxChatCallers

\* a caller with no chat call
IdleChat == [op |-> "-", pc |-> "idle"]

InitOther ==
    /\ db_locked = FALSE
    /\ calls = [t \in Callers |-> IdleCall]
    /\ renders = 0
    /\ stop_loading = FALSE
    /\ chat_calls = [c \in ChatCallers |-> IdleChat]
    /\ loading_threads = [c \in ChatCallers |-> "none"]
    /\ users = <<>>
    /\ emergency_profiles = <<>>
    /\ qr_dir = <<>>

-----------------------------------------------------------------------------
(* Spec: one manager on an empty storage directory, called sequentially *)

RECURSIVE Repeat(_, _)
Repeat(s, n) ==
    IF n = 0 THEN ""
    ELSE LET h == Repeat(s, n \div 2)
         IN  IF n % 2 = 0 THEN h \o h ELSE h \o h \o s

\* a reaction text longer than any QR symbol holds
LongText == Repeat("x", QrCapacity)

Reactions == {"Rash", LongText}

Init ==
    /\ now = 0
    /\ patient_info = <<>>
    /\ allergies = <<>>
    /\ medications = <<>>
    /\ emergency_contact = <<>>
    /\ vitals = <<>>
    /\ qr_file = None
    /\ since_render = "never"
    /\ profile = None
    /\ last = Call("__init__", "-", "ok", None)
    /\ text_log = None
    /\ InitOther

UpdatePatientInfo ==
    update_patient_info("Ann", <<1990, 6, 15>>, "O_NEGATIVE", "Female", None, None)

AddAllergy ==
    /\ Len(allergies) < MaxAllergies
    /\ \E reaction \in Reactions : add_allergy("Penicillin", reaction, "CRITICAL")

AddMedication ==
    /\ Len(medications) < MaxMedications
    /\ add_medication("Insulin", "10 units", "Before meals", "Dr. Johnson", 0, TRUE)

AddVitalMetric ==
    /\ Len(vitals) < MaxVitals
    /\ add_vital_metric("glucose", "180", "mg/dL", "home_monitor", TRUE)

SetEmergencyContact ==
    set_emergency_contact("Jane Doe", "Spouse", "+1-555-123-4567", None)

GenerateEmergencyProfile == generate_emergency_profile

GenerateEmergencyQr == \E with_profile \in BOOLEAN : generate_emergency_qr(with_profile)

ExportEmergencyProfileText ==
    /\ \E with_profile \in BOOLEAN : export_emergency_profile_text(with_profile)
    /\ UNCHANGED text_log

Next ==
    \/ UpdatePatientInfo
    \/ AddAllergy
    \/ AddMedication
    \/ AddVitalMetric
    \/ SetEmergencyContact
    \/ GenerateEmergencyProfile
    \/ GenerateEmergencyQr
    \/ ExportEmergencyProfileText
    \/ Tick

Spec == Init /\ [][Next]_vars

-----------------------------------------------------------------------------
(* SpecSynth: the synthesizer on every small store of allergies and         *)
(* medications, the patient being set                                       *)

Substances == {"Penicillin", "Pollen"}

ShortReactions == {"Rash", "Anaphylaxis"}

InitSynth ==
    /\ now = 0
    /\ patient_info = <<[id |-> 1, name |-> "Ann", date_of_birth |-> <<1990, 6, 15>>,
                         blood_type |-> "O-", gender |-> "Female",
                         weight_kg |-> None, height_cm |-> None]>>
    /\ allergies = <<>>
    /\ medications = <<>>
    /\ emergency_contact = <<>>
    /\ vitals = <<>>
    /\ qr_file = None
    /\ since_render = "never"
    /\ profile = None
    /\ last = Call("update_patient_info", "-", "ok", None)
    /\ text_log = None
    /\ InitOther

SynthAddAllergy ==
    /\ Len(allergies) < MaxSynthAllergies
    /\ \E substance \in Substances, reaction \in ShortReactions,
          severity \in SeverityMembers :
           add_allergy(substance, reaction, severity)

SynthAddMedication ==
    /\ Len(medications) < MaxSynthMedications
    /\ \E is_critical \in BOOLEAN :
           add_medication("Insulin", "10 units", "Before meals", "Dr. Johnson", 0,
                          is_critical)

SynthGenerateQr == generate_emergency_qr(FALSE)

SynthExportText == export_emergency_profile_text(FALSE) /\ UNCHANGED text_log

NextSynth ==
    \/ SynthAddAllergy
    \/ SynthAddMedication
    \/ SynthGenerateQr
    \/ SynthExportText

SpecSynth == InitSynth /\ [][NextSynth]_vars

-----------------------------------------------------------------------------
(* SpecVitals: the synthesizer on vitals logs of up to MaxVitalsLog entries *)

\* ticks between two recordings of a log
Gaps == {1, 24, 48}

\* ticks between the last recording and the call
Delays == {1, 200, 400}

\* which entries of a log of n are abnormal
AbnormalPatterns(n) ==
    {{}, 1..n} \cup {{k} : k \in 1..n} \cup {(1..n) \ {k} : k \in 1..n}

\* the vitals table after n add_vital_metric calls, gap ticks apart
VitalsLog(n, gap, abnormal) ==
    [i \in 1..n |->
        [id |-> i, metric_type |-> "glucose", value |-> "180", unit |-> "mg/dL",
         recorded_date |-> (i - 1) * gap, source |-> "home_monitor",
         is_abnormal |-> SqlBool(i \in abnormal)]]

InitVitals ==
    /\ \E n \in 1..MaxVitalsLog, gap \in Gaps, delay \in Delays :
        \E abnormal \in AbnormalPatterns(n) :
            /\ vitals = VitalsLog(n, gap, abnormal)
            /\ now = (n - 1) * gap + delay
    /\ patient_info = <<[id |-> 1, name |-> "Ann", date_of_birth |-> <<1990, 6, 15>>,
                         blood_type |-> "O-", gender |-> "Female",
                         weight_kg |-> None, height_cm |-> None]>>
    /\ allergies = <<>>
    /\ medications = <<>>
    /\ emergency_contact = <<>>
    /\ qr_file = None
    /\ since_render = "never"
    /\ profile = None
    /\ last = Call("add_vital_metric", "-", "ok", None)
    /\ text_log = None
    /\ InitOther

NextVitals ==
    \/ GenerateEmergencyProfile
    \/ GenerateEmergencyQr

SpecVitals == InitVitals /\ [][NextVitals]_vars

-----------------------------------------------------------------------------
(* SpecAge: _calculate_age and the text export on dates of birth and current *)
(* dates around birthdays, year ends and 29 February                         *)

DatesOfBirth ==
    {<<1990, 6, 15>>, <<1990, 6, 10>>, <<1990, 12, 31>>, <<1991, 1, 1>>,
     <<1990, 2, 28>>, <<1990, 3, 1>>, <<2000, 2, 29>>, <<2024, 6, 10>>}

\* the current date, in days after 2024-06-10: 2024-06-10, -06-14, -06-15,
\* 2024-12-31, 2025-01-01, 2025-02-28, 2025-03-01 and 2028-02-29
DaysAfterEpoch == {0, 4, 5, 204, 205, 263, 264, 1359}

\* the time of day of the calls, in ticks
TimesOfDay == {0, 19}

InitAge ==
    /\ \E dob \in DatesOfBirth :
          patient_info = <<[id |-> 1, name |-> "Ann", date_of_birth |-> dob,
                            blood_type |-> "O-", gender |-> "Female",
                            weight_kg |-> None, height_cm |-> None]>>
    /\ \E day \in DaysAfterEpoch, time \in TimesOfDay : now = day * TicksPerDay + time
    /\ allergies = <<>>
    /\ medications = <<>>
    /\ emergency_contact = <<>>
    /\ vitals = <<>>
    /\ qr_file = None
    /\ since_render = "never"
    /\ profile = None
    /\ last = Call("update_patient_info", "-", "ok", None)
    /\ text_log = None
    /\ InitOther

NextAge ==
    \/ GenerateEmergencyProfile
    \/ CalculateAge
    \/ ExportEmergencyProfileText

SpecAge == InitAge /\ [][NextAge]_vars

-----------------------------------------------------------------------------
(* SpecSingletons: update_patient_info and set_emergency_contact called     *)
(* again and again with different arguments                                 *)

PatientNames == {"Ann", "Bob"}

PatientBloodTypes == {"O_NEGATIVE", "UNKNOWN"}

\* weight_kg and height_cm, given or left out
OptionalWeights == {None, Some(70)}

OptionalHeights == {None, Some(170)}

ContactNames == {"Jane Doe", "John Roe"}

\* alternate_phone, given or left out
OptionalPhones == {None, Some("+1-555-987-6543")}

InitSingletons == Init

SingletonUpdatePatientInfo ==
    \E name \in PatientNames, blood_type \in PatientBloodTypes,
       weight_kg \in OptionalWeights, height_cm \in OptionalHeights :
        update_patient_info(name, <<1990, 6, 15>>, blood_type, "Female", weight_kg,
                            height_cm)

SingletonSetEmergencyContact ==
    \E name \in ContactNames, alternate_phone \in OptionalPhones :
        set_emergency_contact(name, "Spouse", "+1-555-123-4567", alternate_phone)

NextSingletons ==
    \/ SingletonUpdatePatientInfo
    \/ SingletonSetEmergencyContact
    \/ GenerateEmergencyProfile

SpecSingletons == InitSingletons /\ [][NextSingletons]_vars

-----------------------------------------------------------------------------
(* SpecText: export_emergency_profile_text() called again and again while   *)
(* time passes, between other calls; text_log keeps the latest export       *)

InitText == InitSynth

\* export_emergency_profile_text(), logged: repeated tells that an export had
\* been logged at the same time, with no mutation since
TextExport ==
    /\ export_emergency_profile_text(FALSE)
    /\ text_log' =
          IF last'.outcome = "ok"
          THEN Some([at |-> now, text |-> last'.returned[1],
                     repeated |-> text_log # None /\ text_log[1].at = now])
          ELSE text_log

NextText ==
    \/ TextExport
    \/ GenerateEmergencyProfile
    \/ AddMedication
    \/ Tick

SpecText == InitText /\ [][NextText]_vars

-----------------------------------------------------------------------------
(* SpecRequired: the mutations called with and without their required       *)
(* arguments                                                                 *)

InitRequired == Init

RequiredAddAllergy ==
    /\ Len(allergies) < MaxAllergies
    /\ add_allergy("Penicillin", "Rash", "CRITICAL")

CallWithout ==
    \E op \in MutationOps :
        \E missing \in SUBSET RequiredArguments[op] : call_without(op, missing)

DatabaseIsLocked == \E op \in MutationOps : database_is_locked(op)

CloseLeakedConnection == close_leaked_connection

RequiredGenerateQr == generate_emergency_qr(FALSE)

NextRequired ==
    \/ UpdatePatientInfo
    \/ RequiredAddAllergy
    \/ AddMedication
    \/ AddVitalMetric
    \/ SetEmergencyContact
    \/ CallWithout
    \/ DatabaseIsLocked
    \/ CloseLeakedConnection
    \/ RequiredGenerateQr

SpecRequired == InitRequired /\ [][NextRequired]_vars

-----------------------------------------------------------------------------
(* SpecSurgeries: the emergency view of profiles that carry surgeries, which *)
(* a caller builds itself: generate_emergency_profile leaves the list empty  *)

\* Surgery(procedure, date, hospital), dated day days after the epoch
SurgeryOn(day) ==
    [procedure |-> "Operation " \o ToString(day), date |-> day * TicksPerDay,
     hospital |-> "General Hospital", complications |-> None,
     implants_devices |-> None]

\* the days of the surgeries of a profile, in the order of its list
SurgeryDays ==
    {<<>>, <<1>>, <<1, 2>>, <<2, 1>>, <<1, 2, 3>>, <<3, 1, 2>>,
     <<1, 2, 3, 4, 5>>, <<1, 2, 3, 4, 5, 6>>, <<6, 5, 4, 3, 2, 1>>,
     <<4, 1, 6, 3, 5, 2>>}

InitSurgeries ==
    /\ now = 0
    /\ patient_info = <<[id |-> 1, name |-> "Ann", date_of_birth |-> <<1990, 6, 15>>,
                         blood_type |-> "O-", gender |-> "Female",
                         weight_kg |-> None, height_cm |-> None]>>
    /\ allergies = <<>>
    /\ medications = <<>>
    /\ emergency_contact = <<>>
    /\ vitals = <<>>
    /\ qr_file = None
    /\ since_render = "never"
    /\ \E days \in SurgeryDays :
           profile = Some([EmergencyProfileOf(patient_info, allergies, medications,
                                              emergency_contact, vitals, now)
                           EXCEPT !.surgeries = Map(SurgeryOn, days)])
    /\ last = Call("update_patient_info", "-", "ok", None)
    /\ text_log = None
    /\ InitOther

SurgeriesGenerateQr == generate_emergency_qr(TRUE)

SurgeriesExportText == export_emergency_profile_text(TRUE) /\ UNCHANGED text_log

NextSurgeries ==
    \/ SurgeriesGenerateQr
    \/ SurgeriesExportText
    \/ UpdatePatientInfo
    \/ Tick

SpecSurgeries == InitSurgeries /\ [][NextSurgeries]_vars

-----------------------------------------------------------------------------
(* The multi-user store: src/database/database_manager.py and                *)
(* src/database/qr_manager.py                                                *)

\* the variables of the single-patient manager
manager_vars ==
    <<patient_info, allergies, medications, emergency_contact, vitals, qr_file,
      since_render, profile, text_log, db_locked>>

MaxUsers == 2

\* qrcode.make(data) raises DataOverflowError: the data does not fit the
\* largest symbol (version 40) at the default error correction M in byte mode
QrMakeCapacity == 2331

\* fernet.encrypt of a text, None staying None
encrypt_text(text) == IF text = None THEN None ELSE Some([token |-> text[1]])

\* fernet.decrypt of a stored token, None staying None
decrypt_text(b) == IF b = None THEN None ELSE Some(b[1].token)

\* create_user(name, age, blood_type, allergies, emergency_contact)
create_user(name, age, blood_type, user_allergies, contact) ==
    /\ users' = Append(users,
            [id |-> NextRowId(users), name |-> encrypt_text(Some(name)), age |-> age,
             blood_type |-> blood_type, allergies |-> encrypt_text(user_allergies),
             emergency_contact |-> encrypt_text(contact)])
    /\ last' = Call("create_user", "-", "ok", Some(NextRowId(users)))
    /\ UNCHANGED <<now, emergency_profiles, qr_dir>>
    /\ UNCHANGED <<manager_vars, concurrent_vars, chat_vars>>

\* get_user(user_id): None, or the row with its texts decrypted
get_user(user_id) ==
    LET rows == SelectSeq(users, LAMBDA row : row.id = user_id)
    IN  IF rows = <<>> THEN None
        ELSE Some([id |-> rows[1].id, name |-> decrypt_text(rows[1].name),
                   age |-> rows[1].age, blood_type |-> rows[1].blood_type,
                   allergies |-> decrypt_text(rows[1].allergies),
                   emergency_contact |-> decrypt_text(rows[1].emergency_contact)])

\* datetime.isoformat() of the datetime at tick t
IsoFormat(t) ==
    StrfDay(t) \o "T" \o Pad2((t % TicksPerDay) \div 2) \o ":"
    \o Pad2((t % 2) * 30) \o ":00"

\* json.dumps(payload, ensure_ascii=False) of the payload of user at tick t
UserPayload(user, t) ==
    "{\"id\": " \o ToString(user.id)
    \o ", \"name\": " \o JsonOptStr(user.name)
    \o ", \"blood_type\": " \o JsonOptStr(user.blood_type)
    \o ", \"allergies\": " \o JsonOptStr(user.allergies)
    \o ", \"emergency_contact\": " \o JsonOptStr(user.emergency_contact)
    \o ", \"generated_at\": " \o Quote(IsoFormat(t)) \o "}"

\* QR_DIR / f"user_{user_id}_emergency.png"
UserQrPath(user_id) == "qr_profiles/user_" \o ToString(user_id) \o "_emergency.png"

\* a faulty upsert: a plain INSERT into a table without the UNIQUE constraint
upsert_emergency_profile_inserting(table, user_id, qr_code_path, t) ==
    Append(table, [id |-> NextRowId(table), user_id |-> user_id,
                   qr_code_path |-> qr_code_path, last_updated |-> t])

\* INSERT INTO emergency_profiles ... ON CONFLICT(user_id) DO UPDATE SET
\* qr_code_path, last_updated
upsert_emergency_profile(table, user_id, qr_code_path, t) ==
    IF \E i \in 1..Len(table) : table[i].user_id = user_id
    THEN [i \in 1..Len(table) |->
            IF table[i].user_id = user_id
            THEN [table[i] EXCEPT !.qr_code_path = qr_code_path, !.last_updated = t]
            ELSE table[i]]
    ELSE Append(table, [id |-> NextRowId(table), user_id |-> user_id,
                        qr_code_path |-> qr_code_path, last_updated |-> t])

\* the file written at path
WriteFile(dir, path, content) ==
    [f \in DOMAIN dir \cup {path} |-> IF f = path THEN content ELSE dir[f]]

\* qr_manager.generate_emergency_qr(user_id)
qr_manager_generate_emergency_qr(user_id) ==
    LET user == get_user(user_id)
        data == UserPayload(user[1], now)
        outcome == IF user = None THEN "ValueError"
                   ELSE IF Len(data) > QrMakeCapacity THEN "DataOverflowError"
                   ELSE "ok"
    IN  /\ IF outcome = "ok"
           THEN /\ qr_dir' = WriteFile(qr_dir, UserQrPath(user_id), data)
                /\ emergency_profiles' =
                       upsert_emergency_profile(emergency_profiles, user_id,
                                                UserQrPath(user_id), now)
           ELSE UNCHANGED <<qr_dir, emergency_profiles>>
        /\ last' = Call("qr_manager.generate_emergency_qr", ToString(user_id), outcome,
                        IF outcome = "ok" THEN Some(UserQrPath(user_id)) ELSE None)
        /\ UNCHANGED <<now, users>>
        /\ UNCHANGED <<manager_vars, concurrent_vars, chat_vars>>

-----------------------------------------------------------------------------
(* SpecMultiUser: users are created and their emergency QR is generated      *)

UserAllergies == {None, Some("Penicillin"), Some(LongText)}

InitMultiUser == Init

CreateUser ==
    /\ Len(users) < MaxUsers
    /\ \E user_allergies \in UserAllergies :
           create_user("Alice Example", Some(30), Some("O+"), user_allergies,
                       Some("Jane Doe +15550100"))

MultiUserGenerateQr ==
    \E user_id \in 1..(MaxUsers + 1) : qr_manager_generate_emergency_qr(user_id)

NextMultiUser ==
    \/ CreateUser
    \/ MultiUserGenerateQr
    \/ Tick

SpecMultiUser == InitMultiUser /\ [][NextMultiUser]_vars

-----------------------------------------------------------------------------
(* Chatbot.blocking_chat and Chatbot.blocking_summary_chat of                *)
(* src/backend/inference.py, each caller a thread of its own, all sharing    *)
(* the module global stop_loading                                            *)

ChatOps == {"blocking_chat", "blocking_summary_chat"}

\* the call of caller c moves to pc
ChatAt(c, pc) == [chat_calls EXCEPT ![c].pc = pc]

chat_unchanged ==
    /\ UNCHANGED <<now, last, manager_vars, concurrent_vars, multi_user_vars>>

\* global stop_loading; stop_loading = False
chat_reset_flag(c, op) ==
    /\ chat_calls[c].pc \in {"idle", "returned"}
    /\ stop_loading' = FALSE
    /\ chat_calls' = [chat_calls EXCEPT ![c] = [op |-> op, pc |-> "start_thread"]]
    /\ UNCHANGED loading_threads
    /\ chat_unchanged

\* loading_thread = threading.Thread(target=self.loading_indicator);
\* loading_thread.start()
chat_start_thread(c) ==
    /\ chat_calls[c].pc = "start_thread"
    /\ loading_threads' = [loading_threads EXCEPT ![c] = "spinning"]
    /\ chat_calls' = ChatAt(c, IF chat_calls[c].op = "blocking_chat"
                               THEN "encode_image" ELSE "post")
    /\ UNCHANGED stop_loading
    /\ chat_unchanged

\* base64_image = self.get_base64_encoded_image(file_path): open() raises when
\* the file cannot be read
chat_encode_image(c) ==
    /\ chat_calls[c].pc = "encode_image"
    /\ \E raises \in BOOLEAN :
           chat_calls' = ChatAt(c, IF raises THEN "raised" ELSE "post")
    /\ UNCHANGED <<stop_loading, loading_threads>>
    /\ chat_unchanged

\* chat_response = requests.post(...): returns the response or raises
\* (no connection, invalid URL)
chat_post(c) ==
    /\ chat_calls[c].pc = "post"
    /\ \E raises \in BOOLEAN :
           chat_calls' = ChatAt(c, IF raises THEN "raised" ELSE "stop")
    /\ UNCHANGED <<stop_loading, loading_threads>>
    /\ chat_unchanged

\* stop_loading = True
chat_set_flag(c) ==
    /\ chat_calls[c].pc = "stop"
    /\ stop_loading' = TRUE
    /\ chat_calls' = ChatAt(c, "join")
    /\ UNCHANGED loading_threads
    /\ chat_unchanged

\* loading_thread.join() returns once the thread has ended; the response is
\* then split into lines, parsed and returned
chat_join(c) ==
    /\ chat_calls[c].pc = "join"
    /\ loading_threads[c] = "finished"
    /\ chat_calls' = ChatAt(c, "returned")
    /\ UNCHANGED <<stop_loading, loading_threads>>
    /\ chat_unchanged

\* loading_indicator, run by the thread of caller c: "while not stop_loading:
\* continue" leaves the loop in an iteration that reads stop_loading as True
loading_indicator(c) ==
    /\ loading_threads[c] = "spinning"
    /\ stop_loading
    /\ loading_threads' = [loading_threads EXCEPT ![c] = "finished"]
    /\ UNCHANGED <<stop_loading, chat_calls>>
    /\ chat_unchanged

-----------------------------------------------------------------------------
(* SpecChat: chat calls from MaxChatCallers threads.  SpecChatFair adds what *)
(* the scheduler guarantees: a call in progress takes its next step, a       *)
(* request ends, and a loading thread that could leave its loop in every     *)
(* iteration from some point on does leave it.  Nothing obliges a caller to  *)
(* make a call.                                                              *)

InitChat == Init

ChatResetFlag == \E c \in ChatCallers, op \in ChatOps : chat_reset_flag(c, op)

ChatStartThread == \E c \in ChatCallers : chat_start_thread(c)

ChatEncodeImage == \E c \in ChatCallers : chat_encode_image(c)

ChatPost == \E c \in ChatCallers : chat_post(c)

ChatSetFlag == \E c \in ChatCallers : chat_set_flag(c)

ChatJoin == \E c \in ChatCallers : chat_join(c)

LoadingIndicator == \E c \in ChatCallers : loading_indicator(c)

NextChat ==
    \/ ChatResetFlag
    \/ ChatStartThread
    \/ ChatEncodeImage
    \/ ChatPost
    \/ ChatSetFlag
    \/ ChatJoin
    \/ LoadingIndicator

SpecChat == InitChat /\ [][NextChat]_vars

ChatFairness ==
    \A c \in ChatCallers :
        /\ WF_vars(chat_start_thread(c))
        /\ WF_vars(chat_encode_image(c))
        /\ WF_vars(chat_post(c))
        /\ WF_vars(chat_set_flag(c))
        /\ WF_vars(chat_join(c))
        /\ WF_vars(loading_indicator(c))

SpecChatFair == SpecChat /\ ChatFairness

-----------------------------------------------------------------------------
(* The manager called from several threads: every method runs statement by   *)
(* statement, and the statements of different callers interleave.  Each      *)
(* caller has its own connection; sqlite makes a committed statement visible *)
(* to the other connections at once and whole.  Nothing in the class locks.  *)

ReadOps == {"generate_emergency_profile", "generate_emergency_qr", "get_qr_as_base64"}

\* the bytes of a file that two writers have written at the same time
Garbled == "<garbled>"

\* base64.b64encode(qr_bytes).decode('utf-8')
Base64(bytes) == [base64 |-> bytes]

\* the calls after the call of caller t has become rec
SetCall(t, rec) == [calls EXCEPT ![t] = rec]

\* the call of caller t has ended
Ended(t, outcome, returned, artifact) ==
    [IdleCall EXCEPT !.op = calls[t].op, !.pc = "done", !.args = calls[t].args,
                     !.outcome = outcome, !.returned = returned,
                     !.artifact = artifact, !.seen = calls[t].seen,
                     !.clean = calls[t].clean]

\* some mutation has begun and not returned
MutationInFlight ==
    \E u \in Callers : calls[u].op \in MutationOps /\ calls[u].pc # "done"

concurrent_unchanged ==
    /\ UNCHANGED <<now, since_render, profile, last, text_log, db_locked>>
    /\ UNCHANGED <<chat_vars, multi_user_vars>>

\* caller t calls op(args).  The first statement of a mutation is its
\* execute(), that of the other methods the SELECT of the patient row
begin_call(t, op, args) ==
    /\ calls[t].pc \in {"idle", "done"}
    /\ calls' = [u \in Callers |->
            IF u = t
            THEN [IdleCall EXCEPT
                    !.op = op, !.args = args,
                    !.pc = IF op \in MutationOps THEN "execute" ELSE "select_patient",
                    !.seen = IF op = "generate_emergency_profile" THEN {store}
                             ELSE {},
                    !.clean = op \in ReadOps /\ ~MutationInFlight]
            ELSE IF op \in MutationOps THEN [calls[u] EXCEPT !.clean = FALSE]
            ELSE calls[u]]
    /\ UNCHANGED <<store, qr_file, renders>>
    /\ concurrent_unchanged

\* cursor.execute('SELECT * FROM patient_info WHERE id = 1'); fetchone()
select_patient(t) ==
    /\ calls[t].pc = "select_patient"
    /\ calls' = SetCall(t,
            IF ProfileNotSet(patient_info)
            THEN Ended(t, "ValueError", None, None)
            ELSE [calls[t] EXCEPT !.rows.patient_info = patient_info,
                                  !.pc = "select_allergies"])
    /\ UNCHANGED <<store, qr_file, renders>>
    /\ concurrent_unchanged

\* cursor.execute('SELECT * FROM allergies'); fetchall()
select_allergies(t) ==
    /\ calls[t].pc = "select_allergies"
    /\ calls' = SetCall(t, [calls[t] EXCEPT !.rows.allergies = allergies,
                                            !.pc = "select_medications"])
    /\ UNCHANGED <<store, qr_file, renders>>
    /\ concurrent_unchanged

\* cursor.execute('SELECT * FROM medications WHERE is_active = TRUE'); fetchall()
select_medications(t) ==
    /\ calls[t].pc = "select_medications"
    /\ calls' = SetCall(t, [calls[t] EXCEPT !.rows.medications = medications,
                                            !.pc = "select_contact"])
    /\ UNCHANGED <<store, qr_file, renders>>
    /\ concurrent_unchanged

\* cursor.execute('SELECT * FROM emergency_contact WHERE is_primary = TRUE');
\* fetchone()
select_contact(t) ==
    /\ calls[t].pc = "select_contact"
    /\ calls' = SetCall(t, [calls[t] EXCEPT
                                !.rows.emergency_contact = emergency_contact,
                                !.pc = "select_vitals"])
    /\ UNCHANGED <<store, qr_file, renders>>
    /\ concurrent_unchanged

\* cursor.execute('SELECT * FROM vitals WHERE recorded_date > ? ...');
\* fetchall(); conn.close(); profile = EmergencyProfile(...).
\* generate_emergency_profile returns the profile, generate_emergency_qr goes on
\* to its cache check
select_vitals(t) ==
    /\ calls[t].pc = "select_vitals"
    /\ LET rows == calls[t].rows
           built == EmergencyProfileOf(rows.patient_info, rows.allergies,
                                       rows.medications, rows.emergency_contact,
                                       vitals, now)
       IN  calls' = SetCall(t,
                IF calls[t].op = "generate_emergency_profile"
                THEN Ended(t, "ok", Some(built), None)
                ELSE [calls[t] EXCEPT !.rows = NoRows, !.profile = Some(built),
                                      !.pc = "cache_exists"])
    /\ UNCHANGED <<store, qr_file, renders>>
    /\ concurrent_unchanged

\* what generate_emergency_qr does when it returns the path: it ends, or
\* get_qr_as_base64 goes on to open the file
ReturnPath(t, outcome, file) ==
    IF calls[t].op = "get_qr_as_base64"
    THEN [calls[t] EXCEPT !.profile = None, !.content = None, !.linked = FALSE,
                          !.shared = FALSE, !.pc = "open"]
    ELSE Ended(t, outcome, Some(QrCachePath),
               IF file = None THEN None ELSE Some(file[1].content))

\* self.qr_cache_path.exists()
cache_exists(t) ==
    /\ calls[t].pc = "cache_exists"
    /\ calls' = SetCall(t, [calls[t] EXCEPT
                                !.pc = IF qr_file = None THEN "encode"
                                       ELSE "cache_stat"])
    /\ UNCHANGED <<store, qr_file, renders>>
    /\ concurrent_unchanged

\* self.qr_cache_path.stat().st_mtime > datetime.now() - timedelta(hours=1):
\* stat() raises when the file has been removed since exists()
cache_stat(t) ==
    /\ calls[t].pc = "cache_stat"
    /\ calls' = SetCall(t,
            IF qr_file = None THEN Ended(t, "FileNotFoundError", None, None)
            ELSE IF CacheIsFresh(qr_file, now) THEN ReturnPath(t, "cached", qr_file)
            ELSE [calls[t] EXCEPT !.pc = "encode"])
    /\ UNCHANGED <<store, qr_file, renders>>
    /\ concurrent_unchanged

\* emergency_data = profile.to_emergency_dict(); json.dumps; qr.add_data;
\* qr.make(fit=True); qr.make_image: the render
encode(t) ==
    /\ calls[t].pc = "encode"
    /\ LET raises == to_emergency_dict_raises(calls[t].profile[1], now)
           qr_content == QrContent(to_emergency_dict(calls[t].profile[1], now))
       IN  IF raises THEN /\ calls' = SetCall(t, Ended(t, "ValueError", None, None))
                          /\ UNCHANGED renders
           ELSE IF QrOverflows(qr_content)
           THEN /\ calls' = SetCall(t, Ended(t, "DataOverflowError", None, None))
                /\ UNCHANGED renders
           ELSE /\ calls' = SetCall(t, [calls[t] EXCEPT !.content = Some(qr_content),
                                                       !.pc = "save_open"])
                /\ renders' = renders + 1
    /\ UNCHANGED <<store, qr_file>>
    /\ concurrent_unchanged

\* a call has the file at qr_cache_path open for writing
Writing(u) == calls[u].pc = "save_write" /\ calls[u].linked

\* qr_image.save(self.qr_cache_path), its open(path, "w+b"): the file is
\* created or truncated
save_open(t) ==
    /\ calls[t].pc = "save_open"
    /\ qr_file' = Some([mtime |-> now, content |-> ""])
    /\ calls' = [u \in Callers |->
            IF u = t
            THEN [calls[t] EXCEPT !.linked = TRUE,
                                  !.shared = \E w \in Callers \ {t} : Writing(w),
                                  !.pc = "save_write"]
            ELSE IF Writing(u) THEN [calls[u] EXCEPT !.shared = TRUE]
            ELSE calls[u]]
    /\ UNCHANGED <<store, renders>>
    /\ concurrent_unchanged

\* qr_image.save(self.qr_cache_path), its writes and close(): the bytes go to
\* the file that was opened, which may no longer be the one at the path; two
\* writers of one file leave the bytes of the later one or a mix of both
save_write(t) ==
    /\ calls[t].pc = "save_write"
    /\ IF calls[t].linked
       THEN \E bytes \in {calls[t].content[1]}
                         \cup (IF calls[t].shared THEN {Garbled} ELSE {}) :
                /\ qr_file' = Some([mtime |-> now, content |-> bytes])
                /\ calls' = SetCall(t, ReturnPath(t, "rendered", qr_file'))
       ELSE /\ UNCHANGED qr_file
            /\ calls' = SetCall(t, ReturnPath(t, "rendered", qr_file))
    /\ UNCHANGED <<store, renders>>
    /\ concurrent_unchanged

\* get_qr_as_base64: open(qr_path, 'rb'), f.read(), base64.b64encode
open_read(t) ==
    /\ calls[t].pc = "open"
    /\ calls' = SetCall(t,
            IF qr_file = None THEN Ended(t, "FileNotFoundError", None, None)
            ELSE Ended(t, "ok", Some(Base64(qr_file[1].content)),
                       Some(qr_file[1].content)))
    /\ UNCHANGED <<store, qr_file, renders>>
    /\ concurrent_unchanged

\* some other caller has executed its statement and not committed: its
\* connection holds the write lock of the database
WriteLocked(t) == \E u \in Callers \ {t} : calls[u].pc = "commit"

\* cursor.execute(INSERT ...) of a mutation: the statement takes the write
\* lock; while another connection holds it, execute() waits, and after 5
\* seconds raises OperationalError
execute(t) ==
    /\ calls[t].pc = "execute"
    /\ IF WriteLocked(t) \/ db_locked
       THEN calls' = SetCall(t, Ended(t, "OperationalError", None, None))
       ELSE calls' = SetCall(t, [calls[t] EXCEPT !.pc = "commit"])
    /\ UNCHANGED <<store, qr_file, renders>>
    /\ concurrent_unchanged

\* a faulty commit: the columns are written one UPDATE at a time, and the
\* commit of another call lands between them; what this call leaves in the
\* singleton row is its name and its phone only
TablesAfter_columnwise(op, args) ==
    [patient_info |->
        IF op = "update_patient_info" /\ patient_info # <<>>
        THEN <<[patient_info[1] EXCEPT !.name = args.name]>>
        ELSE patient_info,
     allergies |-> allergies,
     medications |-> medications,
     emergency_contact |->
        IF op = "set_emergency_contact" /\ emergency_contact # <<>>
        THEN <<[emergency_contact[1] EXCEPT !.phone = args.phone]>>
        ELSE emergency_contact,
     vitals |-> vitals]

\* the tables once the statement of op(args) is committed
TablesAfter(op, args) ==
    [patient_info |->
        IF op = "update_patient_info"
        THEN InsertOrReplace(patient_info,
                [id |-> 1, name |-> args.name, date_of_birth |-> args.dob,
                 blood_type |-> BloodTypeValue[args.blood_type],
                 gender |-> args.gender, weight_kg |-> args.weight_kg,
                 height_cm |-> args.height_cm])
        ELSE patient_info,
     allergies |->
        IF op = "add_allergy"
        THEN InsertOrReplaceNoId(allergies,
                [substance |-> args.substance, reaction |-> args.reaction,
                 severity |-> SeverityValue[args.severity],
                 verified_date |-> Some(now)])
        ELSE allergies,
     medications |->
        IF op = "add_medication"
        THEN Insert(medications,
                [name |-> args.name, dosage |-> args.dosage,
                 frequency |-> args.frequency, prescribing_doctor |-> args.doctor,
                 start_date |-> args.start_date,
                 is_critical |-> SqlBool(args.is_critical), is_active |-> 1,
                 notes |-> None])
        ELSE medications,
     emergency_contact |->
        IF op = "set_emergency_contact"
        THEN InsertOrReplace(emergency_contact,
                [id |-> 1, name |-> args.name, relationship |-> args.relationship,
                 phone |-> args.phone, alternate_phone |-> args.alternate_phone,
                 is_primary |-> 1])
        ELSE emergency_contact,
     vitals |->
        IF op = "add_vital_metric"
        THEN Insert(vitals,
                [metric_type |-> args.metric_type, value |-> args.value,
                 unit |-> args.unit, recorded_date |-> now, source |-> args.source,
                 is_abnormal |-> SqlBool(args.is_abnormal)])
        ELSE vitals]

\* conn.commit(); conn.close(): the row is in the table, for every connection
commit(t) ==
    /\ calls[t].pc = "commit"
    /\ LET after == TablesAfter(calls[t].op, calls[t].args)
           tables == <<after.patient_info, after.allergies, after.medications,
                       after.emergency_contact, after.vitals>>
       IN  /\ patient_info' = after.patient_info
           /\ allergies' = after.allergies
           /\ medications' = after.medications
           /\ emergency_contact' = after.emergency_contact
           /\ vitals' = after.vitals
           /\ calls' = [u \in Callers |->
                    IF u = t THEN [calls[t] EXCEPT !.pc = "invalidate_exists"]
                    ELSE IF calls[u].op = "generate_emergency_profile"
                            /\ calls[u].pc # "done"
                    THEN [calls[u] EXCEPT !.seen = @ \cup {tables}]
                    ELSE calls[u]]
    /\ UNCHANGED <<qr_file, renders>>
    /\ concurrent_unchanged

\* _invalidate_qr_cache: self.qr_cache_path.exists()
invalidate_exists(t) ==
    /\ calls[t].pc = "invalidate_exists"
    /\ IF qr_file = None
       THEN /\ calls' = SetCall(t, Ended(t, "ok", None, None))
            /\ renders' = 0
       ELSE /\ calls' = SetCall(t, [calls[t] EXCEPT !.pc = "unlink"])
            /\ UNCHANGED renders
    /\ UNCHANGED <<store, qr_file>>
    /\ concurrent_unchanged

\* _invalidate_qr_cache: self.qr_cache_path.unlink(), which raises when the
\* file has been removed since exists().  A file that a writer still has open
\* is no longer at the path.
unlink(t) ==
    /\ calls[t].pc = "unlink"
    /\ IF qr_file = None
       THEN /\ calls' = SetCall(t, Ended(t, "FileNotFoundError", None, None))
            /\ UNCHANGED <<qr_file, renders>>
       ELSE /\ qr_file' = None
            /\ renders' = 0
            /\ calls' = [u \in Callers |->
                    IF u = t THEN Ended(t, "ok", None, None)
                    ELSE [calls[u] EXCEPT !.linked = FALSE, !.shared = FALSE]]
    /\ UNCHANGED store
    /\ concurrent_unchanged

-----------------------------------------------------------------------------
(* SpecWriters: update_patient_info and set_emergency_contact called from     *)
(* MaxCallers threads at once, on a store with a patient and a cached QR file *)

PatientArgs ==
    {[name |-> "Ann", dob |-> <<1990, 6, 15>>, blood_type |-> "O_NEGATIVE",
      gender |-> "Female", weight_kg |-> None, height_cm |-> None],
     [name |-> "Bob", dob |-> <<1985, 1, 2>>, blood_type |-> "A_POSITIVE",
      gender |-> "Male", weight_kg |-> Some(80), height_cm |-> Some(180)]}

ContactArgs ==
    {[name |-> "Jane Doe", relationship |-> "Spouse", phone |-> "+1-555-123-4567",
      alternate_phone |-> None],
     [name |-> "John Roe", relationship |-> "Brother", phone |-> "+1-555-987-6543",
      alternate_phone |-> Some("+1-555-000-0000")]}

InitWriters ==
    /\ now = 0
    /\ patient_info = <<[id |-> 1, name |-> "Ann", date_of_birth |-> <<1990, 6, 15>>,
                         blood_type |-> "O-", gender |-> "Female",
                         weight_kg |-> None, height_cm |-> None]>>
    /\ allergies = <<>>
    /\ medications = <<>>
    /\ emergency_contact = <<>>
    /\ vitals = <<>>
    /\ qr_file = Some([mtime |-> now,
                       content |-> QrContent(to_emergency_dict(
                            EmergencyProfileOf(patient_info, allergies, medications,
                                               emergency_contact, vitals, now),
                            now))])
    /\ since_render = "clean"
    /\ profile = None
    /\ last = Call("generate_emergency_qr", "none", "rendered", Some(QrCachePath))
    /\ text_log = None
    /\ InitOther

BeginUpdatePatientInfo ==
    \E t \in Callers, args \in PatientArgs : begin_call(t, "update_patient_info", args)

BeginSetEmergencyContact ==
    \E t \in Callers, args \in ContactArgs :
        begin_call(t, "set_emergency_contact", args)

Execute == \E t \in Callers : execute(t)

Commit == \E t \in Callers : commit(t)

InvalidateExists == \E t \in Callers : invalidate_exists(t)

Unlink == \E t \in Callers : unlink(t)

NextWriters ==
    \/ BeginUpdatePatientInfo
    \/ BeginSetEmergencyContact
    \/ Execute
    \/ Commit
    \/ InvalidateExists
    \/ Unlink

SpecWriters == InitWriters /\ [][NextWriters]_vars

-----------------------------------------------------------------------------
(* SpecConcurrent: profiles and QR codes are generated while other threads   *)
(* generate them too and mutate the store, the patient being set             *)

InitConcurrent == InitSynth

\* the add_allergy calls that have begun and not committed
AllergiesInFlight ==
    Cardinality({u \in Callers : /\ calls[u].op = "add_allergy"
                                 /\ calls[u].pc \in {"execute", "commit"}})

BeginGenerateProfile ==
    \E t \in Callers : begin_call(t, "generate_emergency_profile", <<>>)

BeginGenerateQr == \E t \in Callers : begin_call(t, "generate_emergency_qr", <<>>)

BeginGetQrAsBase64 == \E t \in Callers : begin_call(t, "get_qr_as_base64", <<>>)

BeginRename ==
    \E t \in Callers, args \in PatientArgs : begin_call(t, "update_patient_info", args)

BeginAddAllergy ==
    /\ Len(allergies) + AllergiesInFlight < MaxAllergies
    /\ \E t \in Callers :
           begin_call(t, "add_allergy",
                      [substance |-> "Penicillin", reaction |-> "Rash",
                       severity |-> "CRITICAL"])

SelectPatient == \E t \in Callers : select_patient(t)

SelectAllergies == \E t \in Callers : select_allergies(t)

SelectMedications == \E t \in Callers : select_medications(t)

SelectContact == \E t \in Callers : select_contact(t)

SelectVitals == \E t \in Callers : select_vitals(t)

CacheExists == \E t \in Callers : cache_exists(t)

CacheStat == \E t \in Callers : cache_stat(t)

Encode == \E t \in Callers : encode(t)

SaveOpen == \E t \in Callers : save_open(t)

SaveWrite == \E t \in Callers : save_write(t)

OpenRead == \E t \in Callers : open_read(t)

NextConcurrent ==
    \/ BeginGenerateProfile
    \/ BeginGenerateQr
    \/ BeginGetQrAsBase64
    \/ BeginRename
    \/ BeginAddAllergy
    \/ SelectPatient
    \/ SelectAllergies
    \/ SelectMedications
    \/ SelectContact
    \/ SelectVitals
    \/ CacheExists
    \/ CacheStat
    \/ Encode
    \/ SaveOpen
    \/ SaveWrite
    \/ OpenRead
    \/ Execute
    \/ Commit
    \/ InvalidateExists
    \/ Unlink

SpecConcurrent == InitConcurrent /\ [][NextConcurrent]_vars

-----------------------------------------------------------------------------
(* The profile and the emergency view of the store as it is now *)

CurrentProfile ==
    EmergencyProfileOf(patient_info, allergies, medications, emergency_contact, vitals, now)

CurrentView == to_emergency_dict(CurrentProfile, now)

-----------------------------------------------------------------------------
(* Claims C1-C4: the cache of generate_emergency_qr (Spec) *)

\* the call a step makes
StepIs(op) == last'.op = op

\* the age of the cached file is below 1 hour
YoungerThanOneHour == now - qr_file[1].mtime < CacheMaxAge

\* C1: after any of the five mutations returns, no cached QR file exists, and
\* the next generate_emergency_qr() that returns has re-rendered the file from
\* the store as it is then, at that time.
C1_MutationInvalidatesCache ==
    [][ /\ (last'.op \in MutationOps => qr_file' = None)
        /\ ( /\ since_render # "clean"
             /\ StepIs("generate_emergency_qr")
             /\ last'.arg = "none"
             /\ last'.outcome \notin Raised )
           => /\ last'.outcome = "rendered"
              /\ qr_file' = Some([mtime |-> now, content |-> QrContent(CurrentView)])
      ]_vars

\* a mutation has returned after a render, and the file is gone
C1_Witness ==
    /\ last.op \in MutationOps
    /\ since_render = "mutated"
    /\ qr_file = None

\* C2: generate_emergency_qr returns the cached file untouched exactly when it
\* exists, is younger than 1 hour and no mutation has returned since it was
\* rendered; otherwise it does not return the old file: it renders and
\* overwrites the file, or it raises.
C2_CachedExactlyWhenFresh ==
    [][ StepIs("generate_emergency_qr") =>
          LET hit == /\ qr_file # None
                     /\ YoungerThanOneHour
                     /\ since_render = "clean"
          IN  /\ hit => /\ last'.outcome = "cached"
                        /\ last'.returned = Some(QrCachePath)
                        /\ qr_file' = qr_file
              /\ ~hit => \/ /\ last'.outcome = "rendered"
                            /\ last'.returned = Some(QrCachePath)
                            /\ last'.encoded # None
                            /\ qr_file' = Some([mtime |-> now,
                                                content |-> last'.encoded[1]])
                         \/ /\ last'.outcome \in Raised
                            /\ last'.returned = None
                            /\ qr_file' = qr_file
      ]_vars

\* a call has returned a cached file that is older than its render time
C2_Witness ==
    /\ last.op = "generate_emergency_qr"
    /\ last.outcome = "cached"
    /\ qr_file # None
    /\ qr_file[1].mtime < now

\* C3: with no patient row in the store, generate_emergency_profile,
\* generate_emergency_qr() and export_emergency_profile_text() raise, return
\* nothing, hand no profile to the caller and write no file.
C3_NoIdentityFails ==
    [][ ( /\ patient_info = <<>>
          /\ \/ StepIs("generate_emergency_profile")
             \/ StepIs("generate_emergency_qr") /\ last'.arg = "none"
             \/ StepIs("export_emergency_profile_text") /\ last'.arg = "none" )
        => /\ last'.outcome = "ValueError"
           /\ last'.returned = None
           /\ profile' = profile
           /\ qr_file' = None
      ]_vars

\* the store holds an allergy and a medication but no patient, and
\* generate_emergency_qr() has raised
C3_Witness ==
    /\ patient_info = <<>>
    /\ allergies # <<>>
    /\ medications # <<>>
    /\ last.op = "generate_emergency_qr"
    /\ last.outcome = "ValueError"

\* C4: a generate_emergency_qr call whose payload exceeds the capacity of the
\* QR symbol raises, returns nothing and leaves the file as it was; no file
\* ever holds a payload above the capacity.
C4_OversizedPayloadFails ==
    /\ [](qr_file # None => Len(qr_file[1].content) <= 2953)
    /\ [][ ( /\ StepIs("generate_emergency_qr")
             /\ last'.encoded # None
             /\ Len(last'.encoded[1]) > 2953 )
           => /\ last'.outcome = "DataOverflowError"
              /\ last'.returned = None
              /\ qr_file' = qr_file
         ]_vars

\* generate_emergency_qr() has raised on an oversized payload and no file exists
C4_Witness ==
    /\ last.op = "generate_emergency_qr"
    /\ last.outcome = "DataOverflowError"
    /\ qr_file = None
    /\ \E i \in 1..Len(allergies) : Len(allergies[i].reaction) >= QrCapacity

-----------------------------------------------------------------------------
(* Claims C5, C6, C10: allergies and medications (SpecSynth) *)

\* C5: the store holds at most one allergy row per substance.
C5_OneRowPerSubstance ==
    \A i, j \in 1..Len(allergies) :
        allergies[i].substance = allergies[j].substance => i = j

\* C6: critical_allergies lists exactly the stored allergies of severity
\* critical or high, in the order they are stored.
C6_CriticalAllergies ==
    patient_info # <<>> =>
        CurrentView.critical_allergies =
            Map(LAMBDA r : [substance |-> r.substance, reaction |-> r.reaction,
                            severity |-> r.severity],
                SelectSeq(allergies, LAMBDA r : r.severity \in {"critical", "high"}))

\* a QR was rendered from a store with a high and a low or moderate allergy
C6_Witness ==
    /\ last.op = "generate_emergency_qr"
    /\ last.outcome = "rendered"
    /\ \E i \in 1..Len(allergies) : allergies[i].severity = "high"
    /\ \E i \in 1..Len(allergies) : allergies[i].severity \in {"moderate", "low"}
    /\ Len(CurrentView.critical_allergies) = 1

\* C10: current_medications lists exactly the stored medications whose active
\* flag is true, each with the stored is_critical value as its critical flag.
C10_ActiveMedications ==
    patient_info # <<>> =>
        CurrentView.current_medications =
            Map(LAMBDA r : [name |-> r.name, dosage |-> r.dosage,
                            critical |-> (r.is_critical = 1)],
                SelectSeq(medications, LAMBDA r : r.is_active = 1))

\* a QR was rendered from a store with a critical and a non-critical medication
C10_Witness ==
    /\ last.op = "generate_emergency_qr"
    /\ last.outcome = "rendered"
    /\ \E i \in 1..Len(medications) : medications[i].is_critical = 1
    /\ \E i \in 1..Len(medications) : medications[i].is_critical = 0
    /\ Len(CurrentView.current_medications) = 2

-----------------------------------------------------------------------------
(* Claims C7-C9: the vitals of the emergency view (SpecVitals) *)

\* the vitals the emergency view lists, as VitalMetric objects
ViewVitals == EmergencyVitals(CurrentProfile, now)

\* how many stored vitals were recorded after tick t
NewerThan(t) == Cardinality({k \in 1..Len(vitals) : vitals[k].recorded_date > t})

\* generate_emergency_qr() has just rendered the emergency view of the store
ViewRendered ==
    /\ last.op = "generate_emergency_qr"
    /\ last.arg = "none"
    /\ last.outcome = "rendered"

\* the stored vital k is in the emergency view
InView(k) ==
    \E i \in 1..Len(ViewVitals) : ViewVitals[i].recorded_date = vitals[k].recorded_date

\* C7: every vital of the emergency view is one of the 10 most recent vitals of
\* the full log.
C7_FromTenMostRecent ==
    ViewRendered =>
        \A i \in 1..Len(ViewVitals) : NewerThan(ViewVitals[i].recorded_date) < 10

\* C8: a vital among the 10 most recent of the full log is in the emergency
\* view if and only if it is abnormal or was recorded within 3 days of now.
C8_AbnormalOrWithinThreeDays ==
    ViewRendered =>
        \A k \in 1..Len(vitals) :
            NewerThan(vitals[k].recorded_date) < 10 =>
                (InView(k) <=> \/ vitals[k].is_abnormal = 1
                               \/ now - vitals[k].recorded_date < 3 * TicksPerDay)

\* C9: the vitals of the emergency view are listed most recent first.
C9_MostRecentFirst ==
    patient_info # <<>> =>
        \A i, j \in 1..Len(ViewVitals) :
            i < j => ViewVitals[i].recorded_date >= ViewVitals[j].recorded_date

\* a QR was rendered whose view lists at least two vitals of different times
C9_Witness ==
    /\ last.op = "generate_emergency_qr"
    /\ last.outcome = "rendered"
    /\ Len(ViewVitals) >= 2
    /\ ViewVitals[1].recorded_date > ViewVitals[2].recorded_date

-----------------------------------------------------------------------------
(* Claim C11: add_medication (SpecSynth) *)

\* C11: every add_medication call appends exactly one row, with a fresh id and
\* the active flag set, and leaves every existing row as it was, also a row of
\* the same name; no other call changes the medications table.  The table
\* being empty at first, n calls leave n rows.
C11_AddMedicationAppendOnly ==
    [][ /\ StepIs("add_medication") =>
            /\ Len(medications') = Len(medications) + 1
            /\ SubSeq(medications', 1, Len(medications)) = medications
            /\ medications'[Len(medications')].is_active = 1
            /\ \A i \in 1..Len(medications) :
                   medications[i].id # medications'[Len(medications')].id
        /\ ~StepIs("add_medication") => medications' = medications
      ]_vars

\* a second medication of the same name was added, and both rows are active
C11_Witness ==
    /\ last.op = "add_medication"
    /\ Len(medications) = 2
    /\ medications[1].name = medications[2].name
    /\ medications[1].is_active = 1
    /\ medications[2].is_active = 1

-----------------------------------------------------------------------------
(* Claims C12, C17: the age and the totality of the text export (SpecAge) *)

\* the age by the birthday rule: the difference of the years, less 1 when the
\* (month, day) of today is before the (month, day) of the birthday
BirthdayRuleAge(dob, today) ==
    (today[1] - dob[1])
    - (IF today[2] < dob[2] \/ (today[2] = dob[2] /\ today[3] < dob[3]) THEN 1 ELSE 0)

\* C12: for every date of birth not after the current date, _calculate_age
\* returns the age by the birthday rule; a date of birth of 1990-06-15 gives
\* 33 on 2024-06-14 and 34 on 2024-06-15.
C12_AgeByBirthdayRule ==
    (last.op = "_calculate_age" /\ ~DateLess(DateOf(now), profile[1].date_of_birth)) =>
        /\ last.outcome = "ok"
        /\ last.returned =
               Some(BirthdayRuleAge(profile[1].date_of_birth, DateOf(now)))
        /\ (profile[1].date_of_birth = <<1990, 6, 15>> /\ DateOf(now) = <<2024, 6, 14>>)
               => last.returned = Some(33)
        /\ (profile[1].date_of_birth = <<1990, 6, 15>> /\ DateOf(now) = <<2024, 6, 15>>)
               => last.returned = Some(34)

\* C17: export_emergency_profile_text returns the complete text block, ending
\* with the "Updated:" line, for every profile: it never raises.
C17_TextExportTotal ==
    last.op = "export_emergency_profile_text" =>
        LET p == IF last.arg = "profile" THEN profile[1] ELSE CurrentProfile
            lines == TextLines(p, now)
        IN  /\ last.outcome = "ok"
            /\ last.returned = Some(JoinLines(lines))
            /\ lines[Len(lines)] = "Updated: " \o StrfMinute(p.last_updated)

-----------------------------------------------------------------------------
(* Claim C13: the missing emergency contact (Spec) *)

\* C13: with the patient set and no emergency contact stored (no doctor is
\* ever stored), generate_emergency_profile succeeds and the contact of the
\* profile holds the placeholders "Not Set", "Unknown", "Not Set"; the text
\* export succeeds, and generate_emergency_qr raises only when the payload
\* exceeds the capacity of the QR symbol.
C13_MissingContactPlaceholders ==
    [][ (patient_info # <<>> /\ emergency_contact = <<>>) =>
          /\ StepIs("generate_emergency_profile") =>
                /\ last'.outcome = "ok"
                /\ profile' # None
                /\ profile'[1].emergency_contact.name = "Not Set"
                /\ profile'[1].emergency_contact.relationship = "Unknown"
                /\ profile'[1].emergency_contact.phone = "Not Set"
                /\ profile'[1].primary_doctor = None
          /\ (StepIs("generate_emergency_qr") /\ last'.arg = "none") =>
                /\ last'.outcome \in {"cached", "rendered", "DataOverflowError"}
                /\ last'.outcome = "DataOverflowError" => Len(last'.encoded[1]) > 2953
          /\ (StepIs("export_emergency_profile_text") /\ last'.arg = "none") =>
                last'.outcome = "ok"
      ]_vars

\* a QR was rendered from a store with the patient set and no contact, after a
\* profile holding the placeholders had been generated
C13_Witness ==
    /\ patient_info # <<>>
    /\ emergency_contact = <<>>
    /\ profile # None
    /\ profile[1].emergency_contact.name = "Not Set"
    /\ last.op = "generate_emergency_qr"
    /\ last.arg = "none"
    /\ last.outcome = "rendered"

-----------------------------------------------------------------------------
(* Claim C14: the singleton rows (SpecSingletons) *)

\* the patient_info row update_patient_info writes for its arguments
PatientRowOf(name, dob, blood_type, gender, weight_kg, height_cm) ==
    [id |-> 1, name |-> name, date_of_birth |-> dob,
     blood_type |-> BloodTypeValue[blood_type], gender |-> gender,
     weight_kg |-> weight_kg, height_cm |-> height_cm]

\* the emergency_contact row set_emergency_contact writes for its arguments
ContactRowOf(name, relationship, phone, alternate_phone) ==
    [id |-> 1, name |-> name, relationship |-> relationship, phone |-> phone,
     alternate_phone |-> alternate_phone, is_primary |-> 1]

\* C14: the store holds at most one patient row and at most one primary
\* contact row; an update_patient_info or set_emergency_contact call leaves
\* its table holding exactly the row of its arguments, a None argument
\* included, and no other call changes these tables: each row equals the
\* arguments of the most recent call.
C14_SingletonsFullyReplaced ==
    /\ [](Len(patient_info) <= 1 /\ Len(PrimaryContactRows(emergency_contact)) <= 1)
    /\ [][ /\ \A name \in PatientNames, blood_type \in PatientBloodTypes,
                 weight_kg \in OptionalWeights, height_cm \in OptionalHeights :
                  update_patient_info(name, <<1990, 6, 15>>, blood_type, "Female",
                                      weight_kg, height_cm)
                  => patient_info' = <<PatientRowOf(name, <<1990, 6, 15>>, blood_type,
                                                    "Female", weight_kg, height_cm)>>
           /\ \A name \in ContactNames, alternate_phone \in OptionalPhones :
                  set_emergency_contact(name, "Spouse", "+1-555-123-4567",
                                        alternate_phone)
                  => emergency_contact' = <<ContactRowOf(name, "Spouse",
                                                         "+1-555-123-4567",
                                                         alternate_phone)>>
           /\ ~StepIs("update_patient_info") => patient_info' = patient_info
           /\ ~StepIs("set_emergency_contact") => emergency_contact' = emergency_contact
         ]_vars

\* a profile was generated from a patient named Bob and a contact with an
\* alternate phone; the patient has since been replaced by Ann with no weight,
\* and the contact by one without an alternate phone
C14_Witness ==
    /\ profile # None
    /\ profile[1].patient_name = "Bob"
    /\ profile[1].emergency_contact.alternate_phone # None
    /\ last.op = "update_patient_info"
    /\ patient_info = <<PatientRowOf("Ann", <<1990, 6, 15>>, "UNKNOWN", "Female", None,
                                      Some(170))>>
    /\ emergency_contact = <<ContactRowOf("Jane Doe", "Spouse", "+1-555-123-4567", None)>>

-----------------------------------------------------------------------------
(* Claim C15: two runs of the synthesis (SpecVitals) *)

-----------------------------------------------------------------------------
(* Claim C16: repeated text exports (SpecText) *)

-----------------------------------------------------------------------------
(* Claims C18, C19: the blocks of the text export (SpecSynth) *)

\* export_emergency_profile_text() has just returned the text of the store
TextExported ==
    /\ last.op = "export_emergency_profile_text"
    /\ last.arg = "none"
    /\ last.outcome = "ok"

\* the text whose allergy block and medication block are the given lines
TextWithBlocks(allergy_block, medication_block) ==
    JoinLines(TextHeader(CurrentProfile, now) \o allergy_block
              \o <<"", "CURRENT MEDICATIONS:">> \o medication_block
              \o TextFooter(CurrentProfile))

\* C18: the critical-allergies block of the text export has one line for each
\* entry of the emergency view's critical_allergies (severity critical or
\* high), in that order, and is "None reported" exactly when that list is
\* empty.
C18_TextAllergiesAreViewAllergies ==
    TextExported =>
        last.returned =
            Some(TextWithBlocks(
                IF CurrentView.critical_allergies = <<>> THEN <<"  None reported">>
                ELSE Map(LAMBDA a : "  - " \o a.substance \o ": " \o a.reaction,
                         CurrentView.critical_allergies),
                TextMedicationBlock(CurrentProfile)))

\* C19: the medications block of the text export has one line for each
\* active medication of the store, "  - name dosage frequency", followed by
\* " [CRITICAL]" exactly when the medication is critical; without medications
\* it is "None reported".
C19_TextMedicationLines ==
    TextExported =>
        LET active == SelectSeq(medications, LAMBDA r : r.is_active = 1)
        IN  last.returned =
                Some(TextWithBlocks(
                    TextAllergyBlock(CurrentProfile),
                    IF active = <<>> THEN <<"  None reported">>
                    ELSE Map(LAMBDA r : "  - " \o r.name \o " " \o r.dosage \o " "
                                        \o r.frequency
                                        \o (IF r.is_critical = 1 THEN " [CRITICAL]"
                                            ELSE ""),
                             active)))

\* a text was exported from a store with a critical and a non-critical
\* medication
C19_Witness ==
    /\ TextExported
    /\ Len(medications) = 2
    /\ medications[1].is_critical # medications[2].is_critical

-----------------------------------------------------------------------------
(* Claim C20: the payload of the QR code (SpecSynth) *)

\* the payload written for patient Ann, born 1990-06-15, on 2024-06-10 00:00
\* with nothing else stored
PayloadOfPatientOnly ==
    "MEDICAL_EMERGENCY:" \o
    "{\"patient\":{\"name\":\"Ann\",\"age\":33,\"dob\":\"1990-06-15\",\"blood_" \o
    "type\":\"O-\",\"gender\":\"Female\",\"weight_kg\":null,\"height_cm\":nu" \o
    "ll}," \o
    "\"critical_allergies\":[]," \o
    "\"current_medications\":[]," \o
    "\"conditions\":[],\"devices\":[],\"emergency_contact\":{\"name\":\"No" \o
    "t Set\",\"phone\":\"Not Set\",\"relationship\":\"Unknown\"},\"doctor\":" \o
    "{\"name\":null,\"phone\":null},\"recent_vitals\":[],\"major_surgeri" \o
    "es\":[],\"directives\":null,\"updated\":\"2024-06-10 00:00\"}"

\* the payload written for the same patient with the allergies Penicillin
\* (critical) and Pollen (high) and two Insulin medications, the first critical
PayloadOfFullStore ==
    "MEDICAL_EMERGENCY:" \o
    "{\"patient\":{\"name\":\"Ann\",\"age\":33,\"dob\":\"1990-06-15\",\"blood_" \o
    "type\":\"O-\",\"gender\":\"Female\",\"weight_kg\":null,\"height_cm\":nu" \o
    "ll}," \o
    "\"critical_allergies\":[{\"substance\":\"Penicillin\",\"reaction\":\"" \o
    "Rash\",\"severity\":\"critical\"},{\"substance\":\"Pollen\",\"reaction" \o
    "\":\"Anaphylaxis\",\"severity\":\"high\"}]," \o
    "\"current_medications\":[{\"name\":\"Insulin\",\"dosage\":\"10 units\"" \o
    ",\"critical\":true},{\"name\":\"Insulin\",\"dosage\":\"10 units\",\"cri" \o
    "tical\":false}]," \o
    "\"conditions\":[],\"devices\":[],\"emergency_contact\":{\"name\":\"No" \o
    "t Set\",\"phone\":\"Not Set\",\"relationship\":\"Unknown\"},\"doctor\":" \o
    "{\"name\":null,\"phone\":null},\"recent_vitals\":[],\"major_surgeri" \o
    "es\":[],\"directives\":null,\"updated\":\"2024-06-10 00:00\"}"

\* the store holds nothing but the patient
PatientOnlyStore == allergies = <<>> /\ medications = <<>>

\* the store holds the two allergies and the two medications
FullStore ==
    /\ Len(allergies) = 2
    /\ allergies[1].substance = "Penicillin"
    /\ allergies[1].reaction = "Rash"
    /\ allergies[1].severity = "critical"
    /\ allergies[2].substance = "Pollen"
    /\ allergies[2].reaction = "Anaphylaxis"
    /\ allergies[2].severity = "high"
    /\ Len(medications) = 2
    /\ medications[1].is_critical = 1
    /\ medications[2].is_critical = 0

\* C20: the file a render writes holds the prefix "MEDICAL_EMERGENCY:"
\* followed by the JSON text of the emergency view, and nothing else, so equal
\* views give equal payloads; the JSON text has its keys in the fixed order of
\* the view and neither blanks nor line breaks between its tokens, as the two
\* payloads written out in full show.
C20_PayloadIsPrefixedCanonicalJson ==
    ViewRendered =>
        /\ qr_file = Some([mtime |-> now,
                           content |-> "MEDICAL_EMERGENCY:" \o JsonDumps(CurrentView)])
        /\ PatientOnlyStore => qr_file[1].content = PayloadOfPatientOnly
        /\ FullStore => qr_file[1].content = PayloadOfFullStore

\* a QR was rendered from the store with the two allergies and two medications
C20_Witness ==
    /\ ViewRendered
    /\ FullStore
    /\ qr_file # None
    /\ qr_file[1].content = PayloadOfFullStore

-----------------------------------------------------------------------------
(* C21 *)

\* C21: a mutation called with None for one or more of its required arguments
\* raises an exception and leaves all five tables exactly as they were.
C21_MissingRequiredFieldRejected ==
    [][(last'.op \in MutationOps /\ last'.arg = "missing") =>
            /\ last'.outcome \in MutationRaised
            /\ store' = store]_vars

\* add_allergy without its substance and update_patient_info without its name
\* were refused on a store that holds a patient and an allergy
C21_Witness ==
    /\ last.op \in {"add_allergy", "update_patient_info"}
    /\ last.arg = "missing"
    /\ last.outcome = "IntegrityError"
    /\ patient_info # <<>>
    /\ allergies # <<>>
    /\ qr_file # None

-----------------------------------------------------------------------------
(* C25 *)

\* the surgeries of list in descending order of date
RECURSIVE MostRecentFirst(_)
MostRecentFirst(list) ==
    IF list = <<>> THEN <<>>
    ELSE LET latest == CHOOSE i \in 1..Len(list) :
                            \A j \in 1..Len(list) : list[j].date <= list[i].date
         IN  <<list[latest]>>
             \o MostRecentFirst(SubSeq(list, 1, latest - 1)
                                \o SubSeq(list, latest + 1, Len(list)))

\* the first n elements of list
FirstN(list, n) == IF Len(list) <= n THEN list ELSE SubSeq(list, 1, n)

\* generate_emergency_qr(profile) has rendered the view of the profile
ProfileRendered ==
    /\ last.op = "generate_emergency_qr"
    /\ last.arg = "profile"
    /\ last.outcome = "rendered"

\* C25: the major_surgeries of the emergency view are at most 5 surgeries, the
\* 5 most recent of the profile's surgeries by date, the most recent first.
C25_FiveMostRecentSurgeriesFirst ==
    ProfileRendered =>
        LET view == to_emergency_dict(profile[1], now)
            expected == FirstN(MostRecentFirst(profile[1].surgeries), LastSurgeries)
        IN  /\ Len(view.major_surgeries) <= LastSurgeries
            /\ view.major_surgeries = Map(SurgeryDict, expected)
            /\ qr_file = Some([mtime |-> now, content |-> QrContent(view)])

-----------------------------------------------------------------------------
(* C27 *)

\* C27: when generate_emergency_qr(profile) has returned, the file at the path
\* it returned holds the payload of the emergency view of that profile, also
\* when it found a fresh cached file that was rendered from another profile.
C27_ExplicitProfileIsEncoded ==
    ( /\ last.op = "generate_emergency_qr"
      /\ last.arg = "profile"
      /\ last.outcome \notin Raised ) =>
        /\ qr_file # None
        /\ qr_file[1].content = QrContent(to_emergency_dict(profile[1], now))

-----------------------------------------------------------------------------
(* C30 *)

\* the rows of emergency_profiles of the user
ProfileRowsOf(table, user_id) == SelectSeq(table, LAMBDA row : row.user_id = user_id)

\* C30: emergency_profiles never holds two rows of one user, and every row
\* points at an existing QR file of its user; a successful
\* qr_manager.generate_emergency_qr(u) leaves the row of u pointing at the file
\* it has just written and returned, and touches no other row; a call for a
\* user id that does not exist raises and changes neither a file nor a row.
C30_OneProfileRowPerUser ==
    [][ /\ \A u \in 1..(MaxUsers + 1) :
              /\ Len(ProfileRowsOf(emergency_profiles', u)) <= 1
              /\ \A i \in 1..Len(ProfileRowsOf(emergency_profiles', u)) :
                    /\ ProfileRowsOf(emergency_profiles', u)[i].qr_code_path
                            = UserQrPath(u)
                    /\ UserQrPath(u) \in DOMAIN qr_dir'
        /\ \A u \in 1..(MaxUsers + 1) :
              ( /\ last'.op = "qr_manager.generate_emergency_qr"
                /\ last'.arg = ToString(u) ) =>
                    /\ get_user(u) = None =>
                          /\ last'.outcome = "ValueError"
                          /\ qr_dir' = qr_dir
                          /\ emergency_profiles' = emergency_profiles
                    /\ last'.outcome = "ok" =>
                          /\ last'.returned = Some(UserQrPath(u))
                          /\ qr_dir'[UserQrPath(u)] = UserPayload(get_user(u)[1], now)
                          /\ Len(ProfileRowsOf(emergency_profiles', u)) = 1
                          /\ ProfileRowsOf(emergency_profiles', u)[1].last_updated = now
                          /\ \A v \in 1..(MaxUsers + 1) \ {u} :
                                ProfileRowsOf(emergency_profiles', v)
                                    = ProfileRowsOf(emergency_profiles, v)
      ]_vars

\* the QR of user 1 was generated again after the QR of user 2, and the table
\* holds one row for each of them
C30_Witness ==
    /\ last.op = "qr_manager.generate_emergency_qr"
    /\ last.arg = "1"
    /\ last.outcome = "ok"
    /\ Len(emergency_profiles) = 2
    /\ emergency_profiles[1].user_id = 1
    /\ emergency_profiles[1].last_updated = 2
    /\ emergency_profiles[2].user_id = 2
    /\ emergency_profiles[2].last_updated = 1

-----------------------------------------------------------------------------
(* C29 *)

\* C29: whenever a chat call has started its loading thread, that thread
\* eventually ends and the call eventually returns or raises.
C29_ChatCallsTerminate ==
    \A c \in ChatCallers :
        (loading_threads[c] = "spinning") ~>
            ( /\ loading_threads[c] = "finished"
              /\ chat_calls[c].pc \in {"returned", "raised"} )

-----------------------------------------------------------------------------
(* C22, C23, C24, C26, C28: the manager under concurrent callers *)

\* C22: between two invalidations of the cache at most one render is performed,
\* however many callers find no fresh cached file.
C22_AtMostOneRenderPerEpoch == renders <= 1

\* the profiles of the states the store has been in during the call of caller t
SnapshotsOf(t) ==
    {EmergencyProfileOf(tables[1], tables[2], tables[3], tables[4], tables[5], now) :
        tables \in calls[t].seen}

\* C23: the profile generate_emergency_profile returns is the profile of one
\* state the store has been in between the start and the end of the call.
C23_ProfileIsOneSnapshot ==
    \A t \in Callers :
        ( /\ calls[t].op = "generate_emergency_profile"
          /\ calls[t].pc = "done"
          /\ calls[t].outcome = "ok" ) =>
            calls[t].returned[1] \in SnapshotsOf(t)

\* caller t executes commit(), the call being op
Commits(t, op) ==
    /\ calls[t].op = op
    /\ calls[t].pc = "commit"
    /\ calls'[t].pc # "commit"

\* C24: with update_patient_info calls (and set_emergency_contact calls) in
\* flight at once, the singleton row changes only when one of the calls
\* commits, and it is then the complete row of that call's arguments: it never
\* mixes the fields of two calls, and no committed call is lost.
C24_SingletonWritesAreWhole ==
    [][ /\ Len(patient_info') <= 1
        /\ Len(emergency_contact') <= 1
        /\ patient_info' # patient_info =>
              \E t \in Callers : Commits(t, "update_patient_info")
        /\ emergency_contact' # emergency_contact =>
              \E t \in Callers : Commits(t, "set_emergency_contact")
        /\ \A t \in Callers :
              /\ Commits(t, "update_patient_info") =>
                    patient_info' =
                        <<PatientRowOf(calls[t].args.name, calls[t].args.dob,
                                       calls[t].args.blood_type, calls[t].args.gender,
                                       calls[t].args.weight_kg,
                                       calls[t].args.height_cm)>>
              /\ Commits(t, "set_emergency_contact") =>
                    emergency_contact' =
                        <<ContactRowOf(calls[t].args.name, calls[t].args.relationship,
                                       calls[t].args.phone,
                                       calls[t].args.alternate_phone)>>
      ]_vars

\* two update_patient_info calls with different arguments are in flight at
\* once, both have committed, and the row is the one of the later commit
C24_Witness ==
    /\ calls[1].op = "update_patient_info"
    /\ calls[2].op = "update_patient_info"
    /\ calls[1].pc \in {"invalidate_exists", "unlink"}
    /\ calls[2].pc \in {"invalidate_exists", "unlink"}
    /\ calls[1].args.name = "Ann"
    /\ calls[2].args.name = "Bob"
    /\ patient_info = <<PatientRowOf("Bob", <<1985, 1, 2>>, "A_POSITIVE", "Male",
                                     Some(80), Some(180))>>

\* C26: a generate_emergency_qr() call that began when every mutation had
\* returned, and during which none began, does not return a file rendered from
\* an earlier state of the store: the file at the path it returns holds the
\* payload of the store as it is (or is still being written).
C26_NoStaleArtifactAfterMutation ==
    \A t \in Callers :
        ( /\ calls[t].op = "generate_emergency_qr"
          /\ calls[t].pc = "done"
          /\ calls[t].clean
          /\ calls[t].outcome \in {"cached", "rendered"} ) =>
            /\ calls[t].artifact # None
            /\ calls[t].artifact[1] \in {"", Garbled, QrContent(CurrentView)}

\* C28: get_qr_as_base64 never fails because the file is gone, and what it
\* returns is the base64 text of a file that a render has written completely.
C28_Base64OfACompleteArtifact ==
    \A t \in Callers :
        (calls[t].op = "get_qr_as_base64" /\ calls[t].pc = "done") =>
            /\ calls[t].outcome = "ok"
            /\ calls[t].returned # None
            /\ calls[t].returned[1].base64 \notin {"", Garbled}

=============================================================================
